---------------------------- MODULE Spec2Model ----------------------------
(***************************************************************************)
(* A model of the conversational data-collection agent:                    *)
(*   - the target catalog and the first-missing lookup   (src/target.py)   *)
(*   - the state store: cache, content hash, durable document              *)
(*                                                        (src/state.py)   *)
(*   - the collector graph, its three nodes and its run  (src/agent.py,    *)
(*                                                        src/nodes/*.py)  *)
(*                                                                         *)
(* Python dicts are records (a missing key is a missing field), None and   *)
(* optional values are sequences of length 0 or 1, lists are sequences.    *)
(***************************************************************************)
EXTENDS Naturals, Sequences, FiniteSets, TLC

VARIABLES
    targets,    \* target.py _cached_targets: the catalog, in definition order
    lookup,     \* one call of find_first_missing_target: its argument and result
    file,       \* the durable document resources/data/state.json
    cache,      \* state.py _STATE_CACHE
    hash,       \* state.py _STATE_HASH
    hist,       \* the store calls made so far, latest last (the last three)
    pc,         \* where the running invocation stands: "idle", a node, or "END"
    st,         \* the graph state of the running invocation
    inv         \* what the running (or last) invocation started from and did

vars == <<targets, lookup, file, cache, hash, hist, pc, st, inv>>

-----------------------------------------------------------------------------
(* Bounds of the model *)

MaxCatalogLen == 2      \* longest catalog
MaxMessages == 3        \* a message list this long takes no further user message
MaxResults == 2         \* most entries of a results map given to the lookup
MaxProse == 2           \* most pieces of prose before the verdict block
MaxPayload == 2         \* most pieces of a result payload
MaxObjects == 3         \* state objects alive at a time

(* Optional values *)
None == <<>>
Some(x) == <<x>>
IsNone(o) == Len(o) = 0
IsSome(o) == Len(o) = 1
Get(o) == o[1]

Last(s) == s[Len(s)]

-----------------------------------------------------------------------------
(* entities.py: the node result tags *)

RESULT_TARGET_FOUND == "target_found"
RESULT_ALL_TARGETS_COMPLETE == "all_targets_complete"
RESULT_ERROR == "error"
RESULT_QUESTION_GENERATED == "question_generated"
RESULT_ANSWER_SUFFICIENT == "answer_sufficient"
RESULT_ANSWER_INSUFFICIENT == "answer_insufficient"

-----------------------------------------------------------------------------
(* The target catalog: target.json as load_target reads it *)

TargetIds == {"A", "B", "C"}
\* an id that results may hold and no catalog defines
ForeignId == "X"
ResultIds == TargetIds \cup {ForeignId}

NameOf(id) ==
    CASE id = "A" -> "name A"
      [] id = "B" -> "name B"
      [] id = "C" -> "name C"
      [] OTHER -> "name X"
DescriptionOf(id) ==
    CASE id = "A" -> "description A"
      [] id = "B" -> "description B"
      [] id = "C" -> "description C"
      [] OTHER -> "description X"
ExampleOf(id) ==
    CASE id = "A" -> "object"
      [] id = "B" -> "list"
      [] OTHER -> "string"

\* one entry of results, as handle_sufficient_answer writes it under its target id
ResultEntry(id, data) ==
    [id |-> id, name |-> NameOf(id), description |-> DescriptionOf(id), data |-> data]

\* load_target: one TargetItem per entry of target.json, the id added
TargetItem(id, required) ==
    [id |-> id, name |-> NameOf(id), description |-> DescriptionOf(id),
     required |-> required, example |-> ExampleOf(id)]

NoDuplicateIds(seq) ==
    \A i, j \in 1..Len(seq) : seq[i].id = seq[j].id => i = j

SeqsUpTo(S, n) == UNION {[1..k -> S] : k \in 0..n}

\* every catalog of at most MaxCatalogLen entries (a JSON object has each key once)
Catalogs ==
    {c \in SeqsUpTo({TargetItem(id, r) : id \in TargetIds, r \in BOOLEAN}, MaxCatalogLen) :
        NoDuplicateIds(c)}

\* every results map of at most MaxResults entries
ResultMaps ==
    {r \in SeqsUpTo({ResultEntry(id, "data") : id \in ResultIds}, MaxResults) :
        NoDuplicateIds(r)}

\* a dict's keys, for a dict kept as the sequence of its entries in insertion order
Keys(entries) == {entries[i].id : i \in 1..Len(entries)}

\* the filter forgotten: every entry counts as required
get_required_target_items_unfiltered(target) == target

\* get_required_target_items: the required entries, order kept
get_required_target_items(target) ==
    SelectSeq(target, LAMBDA item : item.required)

\* get_missing_target_items: the required entries whose id is no key of results
get_missing_target_items(target, results) ==
    SelectSeq(get_required_target_items(target), LAMBDA item : item.id \notin Keys(results))

\* find_first_missing_target: None, or the first (id, item) of the missing entries
find_first_missing_target(target, results) ==
    LET missing_items == get_missing_target_items(target, results)
    IN  IF Len(missing_items) = 0 THEN None ELSE Some(Head(missing_items))

-----------------------------------------------------------------------------
(* The conversation state and the store (state.py) *)

\* model settings as set_model_settings stores them
ModelConfig(name, temperature, type, api_key) ==
    [name |-> name, temperature |-> temperature, type |-> type, api_key |-> api_key]

OllamaConfig == ModelConfig("llama3", "0.2", "ollama", None)
OpenAIConfig == ModelConfig("gpt-4", "0.2", "openai", Some("sk"))
OpenAINoKeyConfig == ModelConfig("gpt-4", "0.2", "openai", None)

Message(role, content) == [role |-> role, content |-> content]

\* _load_state, _reset_state: default_state
default_state ==
    [messages |-> <<>>, node_result |-> "", results |-> <<>>,
     current_target |-> None, model |-> None]

\* results as the dict Python compares and json.dumps(sort_keys=True) serialises:
\* the insertion order of the keys plays no part
ResultsDict(results) ==
    [id \in Keys(results) |->
        LET e == CHOOSE x \in {results[i] : i \in 1..Len(results)} : x.id = id
        IN  [name |-> e.name, description |-> e.description, data |-> e.data]]

\* the state with every dict in key order: what json.dumps(state, sort_keys=True) writes
Canonical(state) == [state EXCEPT !.results = ResultsDict(state.results)]

\* Python's == on two states
StateEq(a, b) == Canonical(a) = Canonical(b)

\* _calculate_state_hash: the digest of the canonical serialisation
\* (two states have one digest exactly when their serialisations are the same text)
_calculate_state_hash(state) == Canonical(state)

\* the durable document: absent, a JSON document, or text json.load rejects
AbsentFile == [kind |-> "absent", doc |-> None]
CorruptFile == [kind |-> "corrupt", doc |-> None]
DocFile(state) == [kind |-> "doc", doc |-> Some(state)]

\* _load_state lines 144-150: absent keys take their defaults
FillDefaults(state) ==
    [k \in DOMAIN state \cup DOMAIN default_state |->
        IF k \in DOMAIN state THEN state[k] ELSE default_state[k]]

\* _load_state: the state returned, and the cache and hash it leaves
_load_state(f, c, h) ==
    IF IsSome(c)
    THEN [ret |-> Get(c), cache |-> c, hash |-> h]
    ELSE IF f.kind = "doc"
         THEN LET state == FillDefaults(Get(f.doc))
              IN  [ret |-> state, cache |-> Some(state),
                   hash |-> Some(_calculate_state_hash(state))]
         ELSE \* no file, or json.load fails: the default state
              [ret |-> default_state, cache |-> Some(default_state),
               hash |-> Some(_calculate_state_hash(default_state))]

\* the hash left as it was after a write: the next save of the same state writes again
_save_state_without_hash_update(state, f, c, h, w) ==
    LET current_hash == _calculate_state_hash(state)
    IN  IF h = Some(current_hash)
        THEN [ret |-> TRUE, file |-> f, cache |-> c, hash |-> h, wrote |-> "skipped"]
        ELSE IF w = "ok"
             THEN [ret |-> TRUE, file |-> DocFile(state), cache |-> Some(state),
                   hash |-> h, wrote |-> "written"]
             ELSE [ret |-> FALSE,
                   file |-> IF w = "fail_write" THEN CorruptFile ELSE f,
                   cache |-> c, hash |-> h, wrote |-> "failed"]

\* cache and hash updated before the write is attempted
_save_state_updating_before_write(state, f, c, h, w) ==
    LET current_hash == _calculate_state_hash(state)
    IN  IF h = Some(current_hash)
        THEN [ret |-> TRUE, file |-> f, cache |-> c, hash |-> h, wrote |-> "skipped"]
        ELSE IF w = "ok"
             THEN [ret |-> TRUE, file |-> DocFile(state), cache |-> Some(state),
                   hash |-> Some(current_hash), wrote |-> "written"]
             ELSE [ret |-> FALSE,
                   file |-> IF w = "fail_write" THEN CorruptFile ELSE f,
                   cache |-> Some(state), hash |-> Some(current_hash),
                   wrote |-> "failed"]

\* how the write of _save_state lines 76-85 can end: done; mkdir or open raises
\* (the document is untouched); the dump raises after open has truncated it
WriteOutcomes == {"ok", "fail_open", "fail_write"}

\* _save_state: its return value, the document, cache and hash it leaves, and
\* whether it skipped, wrote or failed
_save_state(state, f, c, h, w) ==
    LET current_hash == _calculate_state_hash(state)
    IN  IF h = Some(current_hash)
        THEN [ret |-> TRUE, file |-> f, cache |-> c, hash |-> h, wrote |-> "skipped"]
        ELSE IF w = "ok"
             THEN [ret |-> TRUE, file |-> DocFile(state), cache |-> Some(state),
                   hash |-> Some(current_hash), wrote |-> "written"]
             ELSE [ret |-> FALSE,
                   file |-> IF w = "fail_write" THEN CorruptFile ELSE f,
                   cache |-> c, hash |-> h, wrote |-> "failed"]

\* how the unlink of _reset_state line 207 can end
UnlinkOutcomes == {"ok", "fail"}

\* the document deleted, the cache left as it was
_reset_state_keeping_cache(f, c, h, u) ==
    IF f.kind # "absent" /\ u = "fail"
    THEN [ret |-> FALSE, file |-> f, cache |-> c, hash |-> h]
    ELSE [ret |-> TRUE, file |-> AbsentFile, cache |-> c, hash |-> h]

\* _reset_state
_reset_state(f, c, h, u) ==
    IF f.kind # "absent" /\ u = "fail"
    THEN [ret |-> FALSE, file |-> f, cache |-> c, hash |-> h]
    ELSE [ret |-> TRUE, file |-> AbsentFile, cache |-> Some(default_state),
          hash |-> Some(_calculate_state_hash(default_state))]

\* what StateManager.load() would return now
LoadView == _load_state(file, cache, hash).ret

-----------------------------------------------------------------------------
(* The nodes (src/nodes) and the collector graph (src/agent.py) *)

END == "END"
Idle == "idle"

\* the ai case forgotten: a list ending with an ai message starts at find_missing
EntryPointWithoutAiCase(messages) ==
    IF Len(messages) = 0 THEN "find_missing"
    ELSE IF Last(messages).role = "human" THEN "process_answer"
    ELSE "find_missing"

\* Agent._run_collector lines 186-197: the entry point for a message list
EntryPoint(messages) ==
    IF Len(messages) = 0 THEN "find_missing"
    ELSE IF Last(messages).role = "human" THEN "process_answer"
    ELSE IF Last(messages).role = "ai" THEN END
    ELSE "find_missing"

\* results not carried over from the saved state
InitialGraphStateWithoutResults(messages, saved_state) ==
    [messages |-> messages, node_result |-> "",
     results |-> <<>>,
     current_target |-> saved_state.current_target]

\* Agent._run_collector lines 202-213, as the graph takes it: the "model" key is
\* no channel of the State schema (entities.py), so the graph state never holds it,
\* and no key model_name or temperature is given
InitialGraphState(messages, saved_state) ==
    [messages |-> messages, node_result |-> "",
     results |-> saved_state.results,
     current_target |-> saved_state.current_target]

\* current_target left as it was when nothing is missing
find_missing_keeping_target(state, catalog) ==
    LET missing_target == find_first_missing_target(catalog, state.results)
    IN  IF IsSome(missing_target)
        THEN [state EXCEPT !.current_target = Some(Get(missing_target)),
                           !.node_result = RESULT_TARGET_FOUND]
        ELSE [state EXCEPT !.node_result = RESULT_ALL_TARGETS_COMPLETE]

\* find_missing_with_targets
find_missing(state, catalog) ==
    LET missing_target == find_first_missing_target(catalog, state.results)
    IN  IF IsSome(missing_target)
        THEN [state EXCEPT !.current_target = Some(Get(missing_target)),
                           !.node_result = RESULT_TARGET_FOUND]
        ELSE [state EXCEPT !.current_target = None,
                           !.node_result = RESULT_ALL_TARGETS_COMPLETE]

\* utils/model.py invoke, up to the call of the model: _read_state finds the
\* document, it parses, it holds a model, and _get_llm_instance accepts the model
\* (the OpenAI type needs a non-empty api_key)
LLMOutcomes == {"ok", "fail"}

\* the OpenAI type accepted without an api_key
CanInvokeWithoutCredentialCheck(f) ==
    /\ f.kind = "doc"
    /\ "model" \in DOMAIN Get(f.doc)
    /\ IsSome(Get(f.doc).model)

CanInvoke(f) ==
    /\ f.kind = "doc"
    /\ "model" \in DOMAIN Get(f.doc)
    /\ IsSome(Get(f.doc).model)
    /\ LET model_config == Get(Get(f.doc).model)
       IN  model_config.type = "openai" =>
               (IsSome(model_config.api_key) /\ Get(model_config.api_key) # "")

QuestionText == <<"question">>

\* the keys of State (entities.py): the channels of the graph. What a node returns
\* under any other key, like "error", the graph drops
StateChannels ==
    {"messages", "node_result", "model_name", "temperature", "results",
     "current_target"}
Channels(state) == [k \in DOMAIN state \cap StateChannels |-> state[k]]

\* state["node_result"] = tag, on a dict that may not hold the key yet
SetNodeResult(state, tag) == ("node_result" :> tag) @@ state

\* the except branch without state["error"] = str(e)
RaiseWithoutMessage(state, e) == ("node_result" :> RESULT_ERROR) @@ state

\* the except branch of a node: node_result error and the text of the exception
Raise(state, e) == ("node_result" :> RESULT_ERROR) @@ ("error" :> e) @@ state

\* the question generated but not appended to messages
generate_question_without_append(state, f, llm) ==
    IF IsSome(state.current_target) /\ CanInvoke(f) /\ llm = "ok"
    THEN [state EXCEPT !.node_result = RESULT_QUESTION_GENERATED]
    ELSE [state EXCEPT !.node_result = RESULT_ERROR]

\* a failed call answered with an ai message telling the user so
generate_question_reporting_failure(state, f, llm) ==
    IF IsSome(state.current_target) /\ CanInvoke(f) /\ llm = "ok"
    THEN SetNodeResult([state EXCEPT !.messages = Append(@, Message("ai", QuestionText))],
                       RESULT_QUESTION_GENERATED)
    ELSE Raise([state EXCEPT !.messages = Append(@, Message("ai", <<"error">>))],
               IF IsNone(state.current_target) THEN "TypeError" ELSE "invoke")

\* generate_question: the question appended, or the error of the except branch
generate_question(state, f, llm) ==
    IF IsSome(state.current_target) /\ CanInvoke(f) /\ llm = "ok"
    THEN SetNodeResult([state EXCEPT !.messages = Append(@, Message("ai", QuestionText))],
                       RESULT_QUESTION_GENERATED)
    ELSE Raise(state, IF IsNone(state.current_target) THEN "TypeError" ELSE "invoke")

\* A text (an LLM reply, a message content) is a sequence of pieces: a piece is one
\* of the tags the evaluator's format uses, a run of white space, or a run of
\* other characters. Python's str.find, slicing and `in` on the tags of
\* extract_result act on whole pieces, since no tag is part of another
WhiteSpace == " "
OpenTag(tag_name) ==
    IF tag_name = "sufficient" THEN "<sufficient>" ELSE "<insufficient>"
CloseTag(tag_name) ==
    IF tag_name = "sufficient" THEN "</sufficient>" ELSE "</insufficient>"
SUFFICIENT_CODE == "<code>SUFFICIENT</code>"
INSUFFICIENT_CODE == "<code>INSUFFICIENT</code>"

\* sub in text
Contains(text, sub) == \E k \in 1..Len(text) : text[k] = sub

\* text.find(sub, start): the first position from start on that holds sub, 0 for
\* Python's -1 (positions count from 1)
Find(text, sub, start) ==
    IF \E k \in start..Len(text) : text[k] = sub
    THEN CHOOSE k \in start..Len(text) :
            /\ text[k] = sub
            /\ \A j \in start..(k - 1) : text[j] # sub
    ELSE 0

\* text.strip()
RECURSIVE Strip(_)
Strip(text) ==
    IF Len(text) = 0 THEN text
    ELSE IF Head(text) = WhiteSpace THEN Strip(Tail(text))
    ELSE IF Last(text) = WhiteSpace THEN Strip(SubSeq(text, 1, Len(text) - 1))
    ELSE text

\* the first result tag of the whole text taken, whatever block it stands in
extract_result_anywhere(evaluation, tag_name) ==
    LET result_start == Find(evaluation, "<result>", 1)
        result_end == Find(evaluation, "</result>", result_start + 1)
    IN  IF Contains(evaluation, OpenTag(tag_name)) /\ result_start # 0 /\ result_end # 0
        THEN Some(Strip(SubSeq(evaluation, result_start + 1, result_end - 1)))
        ELSE None

\* extract_result: the text of the result tag inside the first tag_name block,
\* stripped, or None
extract_result(evaluation, tag_name) ==
    IF Contains(evaluation, OpenTag(tag_name)) /\ Contains(evaluation, "<result>")
    THEN LET start_index == Find(evaluation, OpenTag(tag_name), 1)
             end_index == Find(evaluation, CloseTag(tag_name), start_index)
         IN  IF start_index # 0 /\ end_index # 0
             THEN LET content == SubSeq(evaluation, start_index, end_index - 1)
                      result_start == Find(content, "<result>", 1)
                      result_end == IF result_start = 0 THEN 0
                                    ELSE Find(content, "</result>", result_start)
                  IN  IF result_start # 0 /\ result_end # 0
                      THEN Some(Strip(SubSeq(content, result_start + 1, result_end - 1)))
                      ELSE None
             ELSE None
    ELSE None

\* what a call that can raise gives back: a value, or the exception
Returned(value) == [raised |-> FALSE, value |-> value, error |-> ""]
Raised(e) == [raised |-> TRUE, value |-> None, error |-> e]

\* what llm.invoke(prompt) can do: raise, or return a text
LLMFailure == [ok |-> FALSE, text |-> <<>>]
LLMReply(text) == [ok |-> TRUE, text |-> text]

\* get_llm(model_name, temperature): the handle of the model
get_llm(model_name, temperature) == [model_name |-> model_name, temperature |-> temperature]

\* The text of a conversion reply is a sequence of pieces too: the fence markers,
\* braces and brackets, a JSON member, a JSON value, a quote character, white
\* space, prose. The three backquotes of a fence are the start of the json fence
\* as well, so str.find on the plain fence stops at either
FenceJson == "<fence>json"
Fence == "<fence>"
Quote == "'"
IsFence(piece) == piece \in {Fence, FenceJson}

\* text.find(fence, start): 0 for Python's -1
FindFence(text, start) ==
    IF \E k \in start..Len(text) : IsFence(text[k])
    THEN CHOOSE k \in start..Len(text) :
            /\ IsFence(text[k])
            /\ \A j \in start..(k - 1) : ~IsFence(text[j])
    ELSE 0

\* text.rfind(sub): the last position that holds sub, 0 for Python's -1
RFind(text, sub) ==
    IF Contains(text, sub)
    THEN CHOOSE k \in 1..Len(text) :
            /\ text[k] = sub
            /\ \A j \in (k + 1)..Len(text) : text[j] # sub
    ELSE 0

\* text.strip of the two quote characters, on the quote pieces at both ends
RECURSIVE StripQuotes(_)
StripQuotes(text) ==
    IF Len(text) = 0 THEN text
    ELSE IF Head(text) = Quote THEN StripQuotes(Tail(text))
    ELSE IF Last(text) = Quote THEN StripQuotes(SubSeq(text, 1, Len(text) - 1))
    ELSE text

\* the values a conversion gives: a str, or what json.loads builds
StrValue(text) == [type |-> "str", text |-> text]
DictValue(members) == [type |-> "dict", items |-> members]
ListValue(items) == [type |-> "list", items |-> items]

\* json.loads on a text that starts with a brace or a bracket: white space between
\* the tokens plays no part; an object holds members, an array holds values
WithoutWhiteSpace(text) == SelectSeq(text, LAMBDA piece : piece # WhiteSpace)
json_loads(json_str) ==
    LET tokens == WithoutWhiteSpace(json_str)
        inner == SubSeq(tokens, 2, Len(tokens) - 1)
    IN  IF Len(tokens) >= 2 /\ tokens[1] = "{" /\ Last(tokens) = "}"
           /\ inner \in {<<>>, <<"k:1">>}
        THEN Returned(DictValue(inner))
        ELSE IF Len(tokens) >= 2 /\ tokens[1] = "[" /\ Last(tokens) = "]"
                /\ inner \in {<<>>, <<"1">>, <<"{", "}">>, <<"{", "k:1", "}">>}
        THEN Returned(ListValue(inner))
        ELSE Raised("JSONDecodeError")

\* parse_llm_response lines 219-231: the text inside the first fenced block,
\* stripped, when the fence is closed; the text as it is otherwise
Unfenced(llm_response) ==
    IF Contains(llm_response, FenceJson)
    THEN LET start_index == Find(llm_response, FenceJson, 1) + 1
             end_index == FindFence(llm_response, start_index)
         IN  IF end_index # 0
             THEN Strip(SubSeq(llm_response, start_index, end_index - 1))
             ELSE llm_response
    ELSE IF Contains(llm_response, Fence)
    THEN LET start_index == Find(llm_response, Fence, 1) + 1
             end_index == FindFence(llm_response, start_index)
         IN  IF end_index # 0
             THEN Strip(SubSeq(llm_response, start_index, end_index - 1))
             ELSE llm_response
    ELSE llm_response

\* lines 235-248 and 251-264: from the first opening to the last closing
\* character, parsed; the text itself when there is no such span or it does
\* not parse. caught is whether the except clause is there
ParseSpan(llm_response, open, close, caught) ==
    LET json_start == Find(llm_response, open, 1)
        json_end == RFind(llm_response, close) + 1
    IN  IF json_start >= 1 /\ json_end > json_start
        THEN LET parsed == json_loads(SubSeq(llm_response, json_start, json_end - 1))
             IN  IF parsed.raised /\ caught
                 THEN Returned(StrValue(llm_response))
                 ELSE parsed
        ELSE Returned(StrValue(llm_response))

\* json.JSONDecodeError not caught
parse_llm_response_without_except(llm_response, example_type) ==
    LET cleaned == Unfenced(llm_response)
    IN  IF example_type = "dict" THEN ParseSpan(cleaned, "{", "}", FALSE)
        ELSE IF example_type = "list" THEN ParseSpan(cleaned, "[", "]", FALSE)
        ELSE Returned(StrValue(Strip(StripQuotes(cleaned))))

\* the text returned for every example type, nothing parsed
parse_llm_response_as_text(llm_response, example_type) ==
    Returned(StrValue(Strip(StripQuotes(Unfenced(llm_response)))))

\* parse_llm_response: the value returned, or the exception raised
parse_llm_response(llm_response, example_type) ==
    LET cleaned == Unfenced(llm_response)
    IN  IF example_type = "dict" THEN ParseSpan(cleaned, "{", "}", TRUE)
        ELSE IF example_type = "list" THEN ParseSpan(cleaned, "[", "]", TRUE)
        ELSE Returned(StrValue(Strip(StripQuotes(cleaned))))

\* type(example), for the examples of the catalog
TypeOfExample(example) ==
    IF example = "object" THEN "dict"
    ELSE IF example = "list" THEN "list"
    ELSE "str"

\* convert_data as convert.py defines it, called with the positional arguments
\* args: it takes name, description, example and user_message, four of them, and
\* Python raises TypeError on any other number; with four, the conversion is the
\* reply of invoke, parsed
convert_data(args, reply) ==
    IF Len(args) # 4 THEN Raised("TypeError")
    ELSE IF ~reply.ok THEN Raised("invoke")
    ELSE parse_llm_response(reply.text, TypeOfExample(args[3]))

ConfirmationText(current_target) ==
    <<current_target.name, "is successfully saved. Let's move on to the next item.">>
DefaultFollowUp == <<"More information is needed. Please provide more details.">>

\* results[target_id] = entry, on a dict: the entry of an id already there is
\* replaced in place, a new id is added at the end
StoreResult(results, entry) ==
    IF entry.id \in Keys(results)
    THEN [k \in 1..Len(results) |->
             IF results[k].id = entry.id THEN entry ELSE results[k]]
    ELSE Append(results, entry)

\* handle_sufficient_answer: the state it returns, or the exception it raises;
\* conversion is what the LLM would reply to the conversion prompt
handle_sufficient_answer(state, llm, current_target, evaluation, conversion) ==
    LET result == extract_result(evaluation, "sufficient")
    IN  IF IsNone(result) THEN Raised("ValueError")
        ELSE LET formatted_answer ==
                     convert_data(<<llm, current_target.name, current_target.description,
                                    current_target.example, Get(result)>>, conversion)
             IN  IF formatted_answer.raised THEN Raised(formatted_answer.error)
                 ELSE LET target == Get(state.current_target)
                          stored == [state EXCEPT !.results =
                                        StoreResult(@, ResultEntry(target.id,
                                                                   formatted_answer.value))]
                      IN  Returned(SetNodeResult(
                              [stored EXCEPT !.messages =
                                   Append(@, Message("ai", ConfirmationText(target)))],
                              RESULT_ANSWER_SUFFICIENT))

\* a missing result raised like in the sufficient branch, no default text
handle_insufficient_answer_without_default(state, evaluation) ==
    LET result == extract_result(evaluation, "insufficient")
    IN  IF IsNone(result) THEN Raise(state, "ValueError")
        ELSE SetNodeResult([state EXCEPT !.messages = Append(@, Message("ai", Get(result)))],
                           RESULT_ANSWER_INSUFFICIENT)

\* the whole evaluation sent to the user as the follow-up
handle_insufficient_answer_unextracted(state, evaluation) ==
    SetNodeResult([state EXCEPT !.messages = Append(@, Message("ai", evaluation))],
                  RESULT_ANSWER_INSUFFICIENT)

\* handle_insufficient_answer
handle_insufficient_answer(state, evaluation) ==
    LET result == extract_result(evaluation, "insufficient")
        follow_up == IF IsNone(result) THEN DefaultFollowUp ELSE Get(result)
    IN  SetNodeResult([state EXCEPT !.messages = Append(@, Message("ai", follow_up))],
                      RESULT_ANSWER_INSUFFICIENT)

\* process_answer lines 15-21: state.get("current_target") is None or absent
NoCurrentTarget(state) ==
    "current_target" \notin DOMAIN state \/ IsNone(state.current_target)

\* process_answer lines 77-85: the keys the prompt and get_llm read
MissingKey(state) ==
    IF "messages" \notin DOMAIN state THEN Some("messages")
    ELSE IF "model_name" \notin DOMAIN state THEN Some("model_name")
    ELSE IF "temperature" \notin DOMAIN state THEN Some("temperature")
    ELSE None

\* process_answer gets as far as llm.invoke
Evaluates(state) == ~NoCurrentTarget(state) /\ IsNone(MissingKey(state))

\* process_answer from line 23 on, for a state with a current_target: a key that
\* is not there raises KeyError (a graph state built by _run_collector holds no
\* model_name); the evaluation is appended as a debug message and the verdict
\* handled; whatever is raised on the way ends in the except branch (lines
\* 97-101), on the state as changed so far
evaluate_answer(state, reply, conversion) ==
    IF IsSome(MissingKey(state)) THEN Raise(state, "KeyError")
    ELSE IF ~reply.ok THEN Raise(state, "invoke")
    ELSE LET current_target == Get(state.current_target)
             llm == get_llm(state.model_name, state.temperature)
             evaluation == reply.text
             evaluated == [state EXCEPT !.messages =
                              Append(@, Message("debug", evaluation))]
         IN  IF Contains(evaluation, SUFFICIENT_CODE)
             THEN LET handled == handle_sufficient_answer(evaluated, llm, current_target,
                                                          evaluation, conversion)
                  IN  IF handled.raised THEN Raise(evaluated, handled.error)
                      ELSE handled.value
             ELSE handle_insufficient_answer(evaluated, evaluation)

\* the test for a current_target left out: the prompt is built from None
process_answer_without_target_check(state, reply, conversion) ==
    IF NoCurrentTarget(state) THEN Raise(state, "TypeError")
    ELSE evaluate_answer(state, reply, conversion)

\* process_answer: with no current_target the answer counts as insufficient (lines
\* 15-21), nothing else is done; otherwise the answer is evaluated
process_answer(state, reply, conversion) ==
    IF NoCurrentTarget(state) THEN SetNodeResult(state, RESULT_ANSWER_INSUFFICIENT)
    ELSE evaluate_answer(state, reply, conversion)

\* the completion test forgotten: every result but an error asks a question
RouteFindMissingWithoutExit(state) ==
    IF state.node_result = RESULT_ERROR THEN END ELSE "generate_question"

\* the conditional edges of _create_collector_graph
RouteFindMissing(state) ==
    IF state.node_result = RESULT_ALL_TARGETS_COMPLETE THEN END
    ELSE IF state.node_result = RESULT_TARGET_FOUND THEN "generate_question"
    ELSE END

\* the question asked and the graph sent back to look for the next target
RouteGenerateQuestionBack(state) == "find_missing"

RouteGenerateQuestion(state) == END

\* the exit forgotten: every answer processed goes on to find_missing
RouteProcessAnswerWithoutExit(state) == "find_missing"

RouteProcessAnswer(state) ==
    IF state.node_result = RESULT_ANSWER_SUFFICIENT THEN "find_missing" ELSE END

\* Agent._create_summary_message: the heading, each entry's name and data in the
\* order of results, the closing line
RECURSIVE SummaryLines(_)
SummaryLines(results) ==
    IF Len(results) = 0 THEN <<>>
    ELSE <<Head(results).name, Head(results).data>> \o SummaryLines(Tail(results))

_create_summary_message(result) ==
    <<"All information has been successfully collected.">>
        \o SummaryLines(result.results)
        \o <<"Conversation completed. Thank you!">>

\* no summary appended
WithoutSummary(result) == result

\* the summary appended whatever the invocation ended with
WithSummaryOnAnyResult(result) ==
    [result EXCEPT !.messages = Append(@, Message("ai", _create_summary_message(result)))]

\* the summary put in the place of the conversation
WithSummaryAlone(result) ==
    IF result.node_result = RESULT_ALL_TARGETS_COMPLETE
    THEN [result EXCEPT !.messages = <<Message("ai", _create_summary_message(result))>>]
    ELSE result

\* Agent._run_collector lines 222-227: the summary, when all targets are complete
WithSummary(result) ==
    IF result.node_result = RESULT_ALL_TARGETS_COMPLETE
    THEN [result EXCEPT !.messages =
              Append(@, Message("ai", _create_summary_message(result)))]
    ELSE result

-----------------------------------------------------------------------------
(* What the model starts from *)

NoLookup == [results |-> <<>>, called |-> FALSE, ret |-> None]
NoInvocation ==
    [op |-> "none", before |-> default_state, messages |-> <<>>, entry |-> END,
     path |-> <<>>, calls |-> <<>>, saved |-> None, done |-> TRUE,
     model |-> None, used |-> <<>>, ret |-> None]

\* documents an earlier session, or another process (state.py lines 174-184), can
\* have left on disk: no conversation in progress, some results already collected
SeedMessages ==
    {<<>>, <<Message("system", <<"note">>)>>, <<Message("debug", <<"raw">>)>>}
SeedResults ==
    {<<>>,
     <<ResultEntry("A", "data")>>,
     <<ResultEntry("B", "data"), ResultEntry("A", "data")>>,
     <<ResultEntry("A", "data"), ResultEntry(ForeignId, "data")>>}
\* ... or a session whose first question could not be generated, under a
\* target.json that required A at the time
FailedQuestionDocument ==
    [default_state EXCEPT !.node_result = RESULT_ERROR,
                          !.current_target = Some(TargetItem("A", TRUE))]
SeedDocuments ==
    {[default_state EXCEPT !.messages = m, !.results = r] :
        m \in SeedMessages, r \in SeedResults}
    \cup {FailedQuestionDocument}
InitialFiles == {AbsentFile} \cup {DocFile(d) : d \in SeedDocuments}

\* the catalogs the agent runs with: none required, one, two in either order,
\* an optional entry before a required one
AgentCatalogs ==
    {<<>>,
     <<TargetItem("A", TRUE)>>,
     <<TargetItem("A", TRUE), TargetItem("B", TRUE)>>,
     <<TargetItem("B", TRUE), TargetItem("A", TRUE)>>,
     <<TargetItem("A", FALSE), TargetItem("B", TRUE)>>}

-----------------------------------------------------------------------------
(* SpecTarget: find_first_missing_target on every catalog and results map *)

InitTarget ==
    /\ targets \in Catalogs
    /\ lookup \in {[NoLookup EXCEPT !.results = r] : r \in ResultMaps}
    /\ file = AbsentFile /\ cache = None /\ hash = None /\ hist = <<>>
    /\ pc = Idle /\ st = default_state /\ inv = NoInvocation

FindFirstMissing ==
    /\ ~lookup.called
    /\ lookup' = [lookup EXCEPT !.called = TRUE,
                                !.ret = find_first_missing_target(targets, lookup.results)]
    /\ UNCHANGED <<targets, file, cache, hash, hist, pc, st, inv>>

NextTarget == FindFirstMissing

SpecTarget == InitTarget /\ [][NextTarget]_vars

-----------------------------------------------------------------------------
(* SpecExtract: extract_result on a sufficient block inside any prose *)

\* what an LLM can put around the block: words, and the tags of the format
ProsePieces ==
    {"note", "<sufficient>", "</sufficient>", "<insufficient>", "<result>", "</result>"}
\* what a payload can hold
PayloadPieces == {"X", WhiteSpace, "</result>", "</sufficient>"}

\* <sufficient><code>SUFFICIENT</code><result>X</result></sufficient>
SufficientBlock(payload) ==
    <<"<sufficient>", SUFFICIENT_CODE, "<result>">> \o payload
        \o <<"</result>", "</sufficient>">>

InitExtract ==
    /\ lookup \in
          {[before |-> b, payload |-> x, after |-> a,
            evaluation |-> b \o SufficientBlock(x) \o a,
            called |-> FALSE, ret |-> None] :
              b \in SeqsUpTo(ProsePieces, MaxProse),
              x \in SeqsUpTo(PayloadPieces, MaxPayload),
              a \in SeqsUpTo(ProsePieces, 1)}
    /\ targets = <<>>
    /\ file = AbsentFile /\ cache = None /\ hash = None /\ hist = <<>>
    /\ pc = Idle /\ st = default_state /\ inv = NoInvocation

ExtractResult ==
    /\ ~lookup.called
    /\ lookup' = [lookup EXCEPT !.called = TRUE,
                                !.ret = extract_result(lookup.evaluation, "sufficient")]
    /\ UNCHANGED <<targets, file, cache, hash, hist, pc, st, inv>>

NextExtract == ExtractResult

SpecExtract == InitExtract /\ [][NextExtract]_vars

-----------------------------------------------------------------------------
(* SpecParse: parse_llm_response on replies with and without a fence, for every *)
(* example type *)

\* the reply: prose, an opening fence, the body, a closing fence, prose, each of
\* them there or not, the whole in quotes or not
InitParse ==
    LET Bodies ==
            {open \o inner \o close :
                open \in {<<>>, <<"{">>, <<"[">>},
                inner \in SeqsUpTo({"k:1", "1", WhiteSpace, "{", "}"}, MaxPayload),
                close \in {<<>>, <<"}">>, <<"]">>}}
    IN  /\ lookup \in
              {[fenced |-> (open # <<>> /\ close # <<>>), body |-> body,
                response |-> quote \o before \o open \o body \o close \o after \o quote,
                example_type |-> type, called |-> FALSE, ret |-> None] :
                  quote \in {<<>>, <<Quote>>},
                  before \in {<<>>, <<"note">>},
                  open \in {<<>>, <<Fence>>, <<FenceJson>>},
                  body \in Bodies,
                  close \in {<<>>, <<Fence>>},
                  after \in {<<>>, <<"note">>},
                  type \in {"dict", "list", "str"}}
        /\ targets = <<>>
        /\ file = AbsentFile /\ cache = None /\ hash = None /\ hist = <<>>
        /\ pc = Idle /\ st = default_state /\ inv = NoInvocation

ParseResponse ==
    /\ ~lookup.called
    /\ lookup' = [lookup EXCEPT
                    !.called = TRUE,
                    !.ret = Some(parse_llm_response(lookup.response, lookup.example_type))]
    /\ UNCHANGED <<targets, file, cache, hash, hist, pc, st, inv>>

NextParse == ParseResponse

SpecParse == InitParse /\ [][NextParse]_vars

-----------------------------------------------------------------------------
(* SpecObjects: the store with the identity of the state objects. The heap maps *)
(* the objects alive to their values; the cache and the caller hold references *)

NoRef == 0

\* the object dropped, unless one of keep still refers to it
Release(heap, ref, keep) ==
    IF ref = NoRef \/ ref \in keep \/ ref \notin DOMAIN heap THEN heap
    ELSE [id \in DOMAIN heap \ {ref} |-> heap[id]]

\* a new object with that value
Allocate(heap, value) ==
    LET new == CHOOSE id \in (1..MaxObjects) \ DOMAIN heap :
                   \A other \in (1..MaxObjects) \ DOMAIN heap : id <= other
    IN  [heap |-> (new :> value) @@ heap, ref |-> new]

\* the same object handed on instead of a copy
deepcopy_by_reference(heap, ref) == [heap |-> heap, ref |-> ref]

\* copy.deepcopy: a new object with the same value, sharing nothing
deepcopy(heap, ref) == Allocate(heap, heap[ref])

\* _load_state on objects: the reference returned, and the heap and cache left
load_objects(heap, f, c, h) ==
    IF c # NoRef
    THEN LET copy == deepcopy(heap, c)
         IN  [ret |-> copy.ref, heap |-> copy.heap, cache |-> c, hash |-> h]
    ELSE LET value == IF f.kind = "doc" THEN FillDefaults(Get(f.doc)) ELSE default_state
             state == Allocate(heap, value)
             cached == deepcopy(state.heap, state.ref)
             returned == deepcopy(cached.heap, state.ref)
         IN  [ret |-> returned.ref,
              heap |-> Release(returned.heap, state.ref, {cached.ref, returned.ref}),
              cache |-> cached.ref,
              hash |-> Some(_calculate_state_hash(value))]

\* _save_state on objects: state is the caller's object
save_objects(heap, state, f, c, h, w) ==
    LET current_hash == _calculate_state_hash(heap[state])
    IN  IF h = Some(current_hash)
        THEN [ret |-> TRUE, heap |-> heap, file |-> f, cache |-> c, hash |-> h]
        ELSE IF w = "ok"
             THEN LET copy == deepcopy(heap, state)
                  IN  [ret |-> TRUE,
                       heap |-> Release(copy.heap, c, {copy.ref, state}),
                       file |-> DocFile(heap[state]),
                       cache |-> copy.ref, hash |-> Some(current_hash)]
             ELSE [ret |-> FALSE, heap |-> heap,
                   file |-> IF w = "fail_write" THEN CorruptFile ELSE f,
                   cache |-> c, hash |-> h]

\* what the caller does to an object it holds: messages.append(...), or
\* state["node_result"] = ...
Mutations(value) ==
    ((IF Len(value.messages) < MaxMessages
      THEN {[value EXCEPT !.messages = Append(@, Message("human", <<"answer">>))]}
      ELSE {})
     \cup {[value EXCEPT !.node_result = RESULT_ERROR]}) \ {value}

\* what load() would return now
LoadedValue(heap, f, c) ==
    IF c # NoRef THEN heap[c]
    ELSE IF f.kind = "doc" THEN FillDefaults(Get(f.doc)) ELSE default_state

\* lookup holds the heap, the cache's reference, the reference in the caller's
\* hands and the last two things done
InitObjects ==
    /\ lookup = [heap |-> <<>>, cache |-> NoRef, held |-> NoRef, ops |-> <<>>]
    /\ file \in {AbsentFile, DocFile(default_state), DocFile(FailedQuestionDocument)}
    /\ cache = None /\ hash = None /\ hist = <<>>
    /\ targets = <<>> /\ pc = Idle /\ st = default_state /\ inv = NoInvocation

Done(op) == IF Len(lookup.ops) = 2 THEN <<lookup.ops[2], op>> ELSE Append(lookup.ops, op)

\* state = StateManager.load(): the caller lets go of what it held
LoadObject ==
    LET r == load_objects(Release(lookup.heap, lookup.held, {lookup.cache}),
                          file, lookup.cache, hash)
    IN  /\ lookup' = [heap |-> r.heap, cache |-> r.cache, held |-> r.ret,
                      ops |-> Done("load")]
        /\ hash' = r.hash
        /\ UNCHANGED <<targets, file, cache, hist, pc, st, inv>>

\* StateManager.save(state), the caller keeping its object
SaveObject ==
    /\ lookup.held # NoRef
    /\ \E w \in WriteOutcomes :
        LET r == save_objects(lookup.heap, lookup.held, file, lookup.cache, hash, w)
        IN  /\ lookup' = [heap |-> r.heap, cache |-> r.cache, held |-> lookup.held,
                          ops |-> Done("save")]
            /\ file' = r.file /\ hash' = r.hash
    /\ UNCHANGED <<targets, cache, hist, pc, st, inv>>

\* the caller changes the object it holds
MutateObject ==
    /\ lookup.held # NoRef
    /\ \E value \in Mutations(lookup.heap[lookup.held]) :
        lookup' = [lookup EXCEPT !.heap[lookup.held] = value, !.ops = Done("mutate")]
    /\ UNCHANGED <<targets, file, cache, hash, hist, pc, st, inv>>

\* StateManager.invalidate_cache
InvalidateObjects ==
    /\ lookup' = [heap |-> Release(lookup.heap, lookup.cache, {lookup.held}),
                  cache |-> NoRef, held |-> lookup.held, ops |-> Done("invalidate_cache")]
    /\ hash' = None
    /\ UNCHANGED <<targets, file, cache, hist, pc, st, inv>>

NextObjects == LoadObject \/ SaveObject \/ MutateObject \/ InvalidateObjects

SpecObjects == InitObjects /\ [][NextObjects]_vars

-----------------------------------------------------------------------------
(* SpecStore: the store under any sequence of load, save, reset, invalidate_cache *)

\* the states handed to save
StoreStates ==
    {default_state,
     [default_state EXCEPT !.model = Some(OllamaConfig)],
     [messages |-> <<Message("ai", <<"question">>)>>,
      node_result |-> RESULT_QUESTION_GENERATED, results |-> <<>>,
      current_target |-> Some(TargetItem("A", TRUE))],
     [default_state EXCEPT !.results =
         <<ResultEntry("A", "data"), ResultEntry("B", "data")>>],
     [default_state EXCEPT !.results =
         <<ResultEntry("B", "data"), ResultEntry("A", "data")>>]}

StoreCall(op, arg, ok, wrote, val) ==
    [op |-> op, arg |-> arg, ok |-> ok, wrote |-> wrote, val |-> val]

\* hist keeps the last three calls
Remember(call) ==
    IF Len(hist) = 3 THEN Append(Tail(hist), call) ELSE Append(hist, call)

InitStore ==
    /\ targets = <<>> /\ lookup = NoLookup
    /\ file \in InitialFiles /\ cache = None /\ hash = None /\ hist = <<>>
    /\ pc = Idle /\ st = default_state /\ inv = NoInvocation

\* StateManager.load
Load ==
    LET r == _load_state(file, cache, hash)
    IN  /\ cache' = r.cache /\ hash' = r.hash
        /\ hist' = Remember(StoreCall("load", None, TRUE, "none", Some(r.ret)))
        /\ UNCHANGED <<targets, lookup, file, pc, st, inv>>

\* StateManager.save
Save ==
    \E state \in StoreStates, w \in WriteOutcomes :
        LET r == _save_state(state, file, cache, hash, w)
        IN  /\ file' = r.file /\ cache' = r.cache /\ hash' = r.hash
            /\ hist' = Remember(StoreCall("save", Some(state), r.ret, r.wrote, None))
            /\ UNCHANGED <<targets, lookup, pc, st, inv>>

\* StateManager.reset
StoreReset ==
    \E u \in UnlinkOutcomes :
        LET r == _reset_state(file, cache, hash, u)
        IN  /\ file' = r.file /\ cache' = r.cache /\ hash' = r.hash
            /\ hist' = Remember(StoreCall("reset", None, r.ret, "none", None))
            /\ UNCHANGED <<targets, lookup, pc, st, inv>>

\* StateManager.invalidate_cache
InvalidateCache ==
    /\ cache' = None /\ hash' = None
    /\ hist' = Remember(StoreCall("invalidate_cache", None, TRUE, "none", None))
    /\ UNCHANGED <<targets, lookup, file, pc, st, inv>>

NextStore == Load \/ Save \/ StoreReset \/ InvalidateCache

SpecStore == InitStore /\ [][NextStore]_vars

-----------------------------------------------------------------------------
(* Spec: the agent under any sequence of initialize_chat, add_user_message, reset *)

ModelConfigs == {OllamaConfig, OpenAINoKeyConfig}

\* <insufficient><code>INSUFFICIENT</code><result>Q</result></insufficient>
InsufficientBlock(payload) ==
    <<"<insufficient>", INSUFFICIENT_CODE, "<result>">> \o payload
        \o <<"</result>", "</insufficient>">>

\* what the evaluation and the conversion can come to during a run of the agent
AgentReplies ==
    {LLMFailure, LLMReply(SufficientBlock(<<"X">>)), LLMReply(InsufficientBlock(<<"Q">>))}
Conversions == {LLMFailure, LLMReply(<<"X">>)}
UserInputs == {<<"answer">>}

\* StateManager.get_model_settings, on the state load() returned: the defaults
\* when no model is stored
DefaultModelConfig == ModelConfig("llama3", "0.7", "ollama", None)
get_model_settings(state) ==
    IF "model" \notin DOMAIN state \/ IsNone(state.model) THEN DefaultModelConfig
    ELSE Get(state.model)

\* utils/model.py invoke lines 70-76: the configuration read from state.json
ConfigRead(f) == Get(Get(f.doc).model)

\* state["model"] = ..., on a dict that may not hold the key yet
SetModel(state, config) == ("model" :> Some(config)) @@ state

Init ==
    /\ targets \in AgentCatalogs /\ lookup = NoLookup
    /\ file \in InitialFiles /\ cache = None /\ hash = None /\ hist = <<>>
    /\ pc = Idle /\ st = default_state /\ inv = NoInvocation

\* Agent._run_collector lines 182-216, after the caller's own store calls left the
\* store as (f, c, h): the invocation is set up and stands at its entry point
StartRun(op, before, messages, model, f, c, h) ==
    LET loaded == _load_state(f, c, h)
    IN  /\ file' = f /\ cache' = loaded.cache /\ hash' = loaded.hash
        /\ st' = InitialGraphState(messages, loaded.ret)
        /\ pc' = EntryPoint(messages)
        /\ inv' = [op |-> op, before |-> before, messages |-> messages,
                   entry |-> EntryPoint(messages), path |-> <<>>, calls |-> <<>>,
                   saved |-> None, done |-> FALSE,
                   model |-> Some(model), used |-> <<>>, ret |-> None]
        /\ UNCHANGED <<targets, lookup, hist>>

\* Agent.initialize_chat lines 71-78: set_model_settings (load, set, save),
\* get_messages, then the run
InitializeChat ==
    /\ pc = Idle
    /\ \E config \in ModelConfigs, w \in WriteOutcomes :
        LET loaded == _load_state(file, cache, hash)
            saved == _save_state(SetModel(loaded.ret, config), file,
                                 loaded.cache, loaded.hash, w)
            messages == _load_state(saved.file, saved.cache, saved.hash).ret.messages
        IN  StartRun("initialize_chat", loaded.ret, messages, config,
                     saved.file, saved.cache, saved.hash)

\* Agent.add_user_message lines 38-45: append_message (load, append, save),
\* get_messages, get_model_settings, then the run
AddUserMessage ==
    /\ pc = Idle
    /\ Len(LoadView.messages) < MaxMessages
    /\ \E content \in UserInputs, w \in WriteOutcomes :
        LET loaded == _load_state(file, cache, hash)
            appended == [loaded.ret EXCEPT
                            !.messages = Append(@, Message("human", content))]
            saved == _save_state(appended, file, loaded.cache, loaded.hash, w)
            current == _load_state(saved.file, saved.cache, saved.hash).ret
            messages == current.messages
        IN  StartRun("add_user_message", loaded.ret, messages,
                     get_model_settings(current),
                     saved.file, saved.cache, saved.hash)

\* StateManager.reset, from the sidebar (app.py lines 164-171)
Reset ==
    /\ pc = Idle
    /\ \E u \in UnlinkOutcomes :
        LET before == LoadView
            r == _reset_state(file, cache, hash, u)
        IN  /\ file' = r.file /\ cache' = r.cache /\ hash' = r.hash
            /\ inv' = [NoInvocation EXCEPT !.op = IF r.ret THEN "reset" ELSE "reset_failed",
                                           !.before = before]
            /\ UNCHANGED <<targets, lookup, hist, pc, st>>

Visit(node, state) == [node |-> node, node_result |-> state.node_result]

\* the node find_missing and the edge out of it
FindMissing ==
    /\ pc = "find_missing"
    /\ LET state == find_missing(st, targets)
       IN  /\ st' = state
           /\ pc' = RouteFindMissing(state)
           /\ inv' = [inv EXCEPT !.path = Append(@, Visit("find_missing", state))]
    /\ UNCHANGED <<targets, lookup, file, cache, hash, hist>>

\* the node generate_question and the edge out of it
GenerateQuestion ==
    /\ pc = "generate_question"
    /\ \E llm \in LLMOutcomes :
        LET state == Channels(generate_question(st, file, llm))
        IN  /\ st' = state
            /\ pc' = RouteGenerateQuestion(state)
            /\ inv' = [inv EXCEPT
                        !.path = Append(@, Visit("generate_question", state)),
                        !.calls = Append(@, IF CanInvoke(file) THEN llm ELSE "fail"),
                        !.used = IF IsSome(st.current_target) /\ CanInvoke(file)
                                 THEN Append(@, ConfigRead(file)) ELSE @]
    /\ UNCHANGED <<targets, lookup, file, cache, hash, hist>>

\* the node process_answer and the edge out of it
ProcessAnswer ==
    /\ pc = "process_answer"
    /\ \E reply \in AgentReplies, conversion \in Conversions :
        LET state == Channels(process_answer(st, reply, conversion))
        IN  /\ st' = state
            /\ pc' = RouteProcessAnswer(state)
            /\ inv' = [inv EXCEPT
                        !.path = Append(@, Visit("process_answer", state)),
                        !.calls = IF Evaluates(st)
                                  THEN Append(@, IF reply.ok THEN "ok" ELSE "fail")
                                  ELSE @]
    /\ UNCHANGED <<targets, lookup, file, cache, hash, hist>>

\* every ai message of the result, those before the invocation too
NewAiMessagesOfAll(all_messages, messages) ==
    SelectSeq(all_messages, LAMBDA msg : msg.role = "ai")

\* Agent.add_user_message lines 48-54, initialize_chat lines 81-87: the ai
\* messages of the result past the messages the run was started with
NewAiMessages(all_messages, messages) ==
    IF Len(all_messages) > Len(messages)
    THEN SelectSeq(SubSeq(all_messages, Len(messages) + 1, Len(all_messages)),
                   LAMBDA msg : msg.role = "ai")
    ELSE <<>>

\* Agent._run_collector lines 220-231: the graph has returned; the summary, the
\* save, the return of _run_collector and of its caller
Finish ==
    /\ pc = END
    /\ \E w \in WriteOutcomes :
        LET result == WithSummary(st)
            saved == _save_state(result, file, cache, hash, w)
        IN  /\ st' = result
            /\ file' = saved.file /\ cache' = saved.cache /\ hash' = saved.hash
            /\ inv' = [inv EXCEPT
                        !.saved = Some(result), !.done = TRUE,
                        !.ret = Some([all_messages |-> result.messages,
                                      new_messages |->
                                          NewAiMessages(result.messages, inv.messages)])]
    /\ pc' = Idle
    /\ UNCHANGED <<targets, lookup, hist>>

Next ==
    \/ InitializeChat
    \/ AddUserMessage
    \/ Reset
    \/ FindMissing
    \/ GenerateQuestion
    \/ ProcessAnswer
    \/ Finish

Spec == Init /\ [][Next]_vars

\* graph.invoke and _run_collector are sequential code: once an invocation has
\* started, its next step is taken (agent.py lines 215-231)
SpecLive ==
    Init /\ [][Next]_vars
         /\ WF_vars(FindMissing \/ GenerateQuestion \/ ProcessAnswer \/ Finish)

-----------------------------------------------------------------------------
(* SpecCatalog: the agent while target.json cannot be loaded (missing, malformed): *)
(* get_targets raises at every call, nothing is cached (target.py lines 19-33). *)
(* Spec above is the agent with a catalog that loads. *)

InitCatalog ==
    /\ targets = <<>> /\ lookup = NoLookup
    /\ file \in InitialFiles /\ cache = None /\ hash = None /\ hist = <<>>
    /\ pc = Idle /\ st = default_state /\ inv = NoInvocation

\* find_missing line 14: get_targets() raises outside the try of
\* find_missing_with_targets, the exception leaves the node and graph.invoke, and
\* the except branch of _run_collector (agent.py lines 233-236) returns the input
\* state with node_result error, nothing saved
FindMissingRaises ==
    /\ pc = "find_missing"
    /\ st' = SetNodeResult(st, RESULT_ERROR)
    /\ pc' = Idle
    /\ inv' = [inv EXCEPT
                !.path = Append(@, [node |-> "find_missing", node_result |-> "raised"]),
                !.done = TRUE,
                !.ret = Some([all_messages |-> st.messages,
                              new_messages |-> NewAiMessages(st.messages, inv.messages)])]
    /\ UNCHANGED <<targets, lookup, file, cache, hash, hist>>

NextCatalog ==
    \/ InitializeChat
    \/ AddUserMessage
    \/ Reset
    \/ FindMissingRaises
    \/ ProcessAnswer
    \/ Finish

SpecCatalog == InitCatalog /\ [][NextCatalog]_vars

-----------------------------------------------------------------------------
(* SpecNode: process_answer and generate_question called on a state, as the tests
   call them *)

\* what the evaluator can reply: the two blocks of the format, alone, in prose and
\* together; a block without its result tag, without its closing tag, without its
\* code; a code without a block; prose only; nothing
Evaluations ==
    {SufficientBlock(<<"X">>),
     <<"note", WhiteSpace>> \o SufficientBlock(<<WhiteSpace, "X">>),
     InsufficientBlock(<<"Q">>),
     InsufficientBlock(<<"Q">>) \o SufficientBlock(<<"X">>),
     <<"note">> \o InsufficientBlock(<<WhiteSpace, "Q", WhiteSpace>>)
         \o <<"<sufficient>", "<result>", "X", "</result>", "</sufficient>">>,
     <<"<sufficient>", SUFFICIENT_CODE, "</sufficient>">>,
     <<"<insufficient>", INSUFFICIENT_CODE, "</insufficient>">>,
     <<"<insufficient>", INSUFFICIENT_CODE, "<result>", "Q", "</result>">>,
     <<"<sufficient>", "<result>", "X", "</result>", "</sufficient>">>,
     <<SUFFICIENT_CODE>>,
     <<"note">>,
     <<>>}
Replies == {LLMFailure} \cup {LLMReply(text) : text \in Evaluations}

NodeMessages ==
    {<<>>,
     <<Message("ai", QuestionText)>>,
     <<Message("ai", QuestionText), Message("human", <<"answer">>)>>}
NodeTargets == {None, Some(TargetItem("A", TRUE)), Some(TargetItem("B", TRUE))}
NodeStoredResults == {<<>>, <<ResultEntry("A", "data")>>}

\* model_name and temperature given, as test_process_answer_real_llm gives them
WithModelName(state) == ("model_name" :> "llama3") @@ ("temperature" :> "0.5") @@ state

NodeStates ==
    LET plain == {[messages |-> m, node_result |-> "", results |-> r,
                   current_target |-> t] :
                     m \in NodeMessages, r \in NodeStoredResults, t \in NodeTargets}
    IN  plain \cup {WithModelName(state) : state \in plain}
        \cup {[node_result |-> "", results |-> <<>>,
               current_target |-> Some(TargetItem("A", TRUE)),
               model_name |-> "llama3", temperature |-> "0.5"],
              [messages |-> <<Message("human", <<"answer">>)>>, node_result |-> "",
               results |-> <<>>, model_name |-> "llama3", temperature |-> "0.5"]}

NodeFiles ==
    {AbsentFile,
     DocFile(SetModel(default_state, OllamaConfig)),
     DocFile(SetModel(default_state, OpenAINoKeyConfig)),
     DocFile(SetModel(default_state, [OpenAIConfig EXCEPT !.api_key = Some("")])),
     DocFile(SetModel(default_state, OpenAIConfig))}

InitNode ==
    /\ st \in NodeStates
    /\ \/ pc = "process_answer" /\ file = AbsentFile
       \/ /\ pc = "generate_question" /\ file \in NodeFiles
          /\ {"messages", "current_target"} \subseteq DOMAIN st
    /\ inv = [NoInvocation EXCEPT !.op = pc, !.before = st, !.entry = pc,
                                  !.done = FALSE]
    /\ targets = <<>> /\ lookup = NoLookup
    /\ cache = None /\ hash = None /\ hist = <<>>

\* process_answer(state), and the edge the graph would take from what it returns
CallProcessAnswer ==
    /\ pc = "process_answer"
    /\ \E reply \in Replies, conversion \in Conversions :
        LET state == process_answer(st, reply, conversion)
        IN  /\ st' = state
            /\ pc' = RouteProcessAnswer(state)
            /\ inv' = [inv EXCEPT
                        !.path = <<Visit("process_answer", state)>>,
                        !.calls = IF Evaluates(st) THEN <<reply>> ELSE <<>>,
                        !.done = TRUE]
    /\ UNCHANGED <<targets, lookup, file, cache, hash, hist>>

\* generate_question(state), and the edge the graph would take
CallGenerateQuestion ==
    /\ pc = "generate_question"
    /\ ~inv.done
    /\ \E llm \in LLMOutcomes :
        LET state == generate_question(st, file, llm)
        IN  /\ st' = state
            /\ pc' = RouteGenerateQuestion(state)
            /\ inv' = [inv EXCEPT
                        !.path = <<Visit("generate_question", state)>>,
                        !.calls = IF IsSome(st.current_target)
                                  THEN <<IF CanInvoke(file) /\ llm = "ok"
                                         THEN LLMReply(QuestionText) ELSE LLMFailure>>
                                  ELSE <<>>,
                        !.used = IF IsSome(st.current_target) /\ CanInvoke(file)
                                 THEN <<ConfigRead(file)>> ELSE <<>>,
                        !.done = TRUE]
    /\ UNCHANGED <<targets, lookup, file, cache, hash, hist>>

NextNode == CallProcessAnswer \/ CallGenerateQuestion

SpecNode == InitNode /\ [][NextNode]_vars

-----------------------------------------------------------------------------
(* The claims *)

RunOps == {"initialize_chat", "add_user_message"}

\* the entry at position i of a catalog is required and not yet collected
MissingAt(catalog, results, i) ==
    catalog[i].required /\ catalog[i].id \notin Keys(results)

\* C1: the lookup returns none iff every required id of the catalog is a key of
\* results; otherwise it returns the first entry, in definition order, that is
\* required and is no key of results. Entries that are not required and keys of
\* results that the catalog does not define do not change what it returns.
C1_FirstMissingRequired ==
    lookup.called =>
        /\ IsNone(lookup.ret) <=>
              \A i \in 1..Len(targets) :
                  targets[i].required => targets[i].id \in Keys(lookup.results)
        /\ IsSome(lookup.ret) =>
              \E i \in 1..Len(targets) :
                  /\ Get(lookup.ret) = targets[i]
                  /\ MissingAt(targets, lookup.results, i)
                  /\ \A j \in 1..(i - 1) : ~MissingAt(targets, lookup.results, j)
        /\ lookup.ret =
              find_first_missing_target(
                  SelectSeq(targets, LAMBDA item : item.required),
                  SelectSeq(lookup.results, LAMBDA e : e.id \in Keys(targets)))

\* the lookup passed over an earlier entry, and results holds a foreign key
C1_Witness ==
    /\ lookup.called
    /\ IsSome(lookup.ret)
    /\ Len(targets) = 2
    /\ Get(lookup.ret) = targets[2]
    /\ ~targets[1].required
    /\ ForeignId \in Keys(lookup.results)

\* the tags a node can leave in node_result
NodeResults ==
    {RESULT_TARGET_FOUND, RESULT_ALL_TARGETS_COMPLETE, RESULT_ERROR,
     RESULT_QUESTION_GENERATED, RESULT_ANSWER_SUFFICIENT, RESULT_ANSWER_INSUFFICIENT}

\* C2: inside an invocation the steps follow the transition table and nothing
\* else: find_missing is followed by generate_question iff it set target_found and
\* by the exit otherwise, generate_question by the exit, process_answer by
\* find_missing iff it set answer_sufficient and by the exit otherwise; and the
\* edges route every tag that way
C2_TransitionTable ==
    [][/\ \A tag \in NodeResults :
            LET state == [st EXCEPT !.node_result = tag]
            IN  /\ RouteFindMissing(state) =
                      IF tag = RESULT_TARGET_FOUND THEN "generate_question" ELSE END
                /\ RouteGenerateQuestion(state) = END
                /\ RouteProcessAnswer(state) =
                      IF tag = RESULT_ANSWER_SUFFICIENT THEN "find_missing" ELSE END
       /\ pc = "find_missing" =>
            /\ st'.node_result \in {RESULT_TARGET_FOUND, RESULT_ALL_TARGETS_COMPLETE,
                                    RESULT_ERROR}
            /\ pc' = IF st'.node_result = RESULT_TARGET_FOUND
                     THEN "generate_question" ELSE END
       /\ pc = "generate_question" => pc' = END
       /\ pc = "process_answer" =>
            /\ st'.node_result \in {RESULT_ANSWER_SUFFICIENT, RESULT_ANSWER_INSUFFICIENT,
                                    RESULT_ERROR}
            /\ pc' = IF st'.node_result = RESULT_ANSWER_SUFFICIENT
                     THEN "find_missing" ELSE END
       /\ pc = END => pc' = Idle
       /\ pc = Idle => pc' \in {Idle, "find_missing", "process_answer", END}]_vars

\* an invocation went find_missing -> generate_question -> EXIT
C2_Witness ==
    /\ inv.done
    /\ Len(inv.path) = 2
    /\ inv.path[1] = [node |-> "find_missing", node_result |-> RESULT_TARGET_FOUND]
    /\ inv.path[2].node = "generate_question"

\* C3: the entry point of an invocation is decided by the message list handed to
\* it: empty -> find_missing, last role human -> process_answer, last role ai ->
\* no step at all, any other last role -> find_missing
C3_EntryPoint ==
    inv.op \in RunOps =>
        /\ Len(inv.messages) = 0 => inv.entry = "find_missing"
        /\ Len(inv.messages) > 0 =>
              /\ Last(inv.messages).role = "human" => inv.entry = "process_answer"
              /\ Last(inv.messages).role = "ai" => inv.entry = END /\ inv.path = <<>>
              /\ Last(inv.messages).role \notin {"human", "ai"} =>
                    inv.entry = "find_missing"
        /\ Len(inv.path) > 0 => inv.path[1].node = inv.entry
        /\ ~inv.done /\ inv.path = <<>> => pc = inv.entry

\* an invocation whose last message was a system or debug message ran find_missing
C3_Witness ==
    /\ inv.op \in RunOps
    /\ inv.done
    /\ Len(inv.messages) > 0
    /\ Last(inv.messages).role \in {"system", "debug"}
    /\ Len(inv.path) > 0
    /\ inv.path[1].node = "find_missing"

\* the four conversation fields of two states are the same
SameConversation(a, b) ==
    /\ a.messages = b.messages
    /\ ResultsDict(a.results) = ResultsDict(b.results)
    /\ a.current_target = b.current_target
    /\ a.node_result = b.node_result

\* C4: an invocation handed a message list that ends with an ai message runs no
\* step and leaves messages, results, current_target and node_result, as load()
\* returns them, as they were before it
C4_AssistantLastIsNoOp ==
    (/\ inv.op \in RunOps
     /\ inv.done
     /\ Len(inv.messages) > 0
     /\ Last(inv.messages).role = "ai") =>
        /\ inv.path = <<>>
        /\ SameConversation(LoadView, inv.before)

\* a finished invocation that entered at find_missing
EnteredAtFindMissing ==
    /\ inv.op \in RunOps
    /\ inv.done
    /\ inv.entry = "find_missing"

\* C5: an invocation that enters at find_missing while a required field is absent
\* from results, and whose LLM call succeeds, sets current_target to the first
\* missing required field, passes through target_found, runs generate_question
\* next, appends exactly one ai message, halts with question_generated and leaves
\* results as they were
C5_QuestionForFirstMissing ==
    (/\ EnteredAtFindMissing
     /\ \E i \in 1..Len(targets) : MissingAt(targets, inv.before.results, i)
     /\ \A k \in 1..Len(inv.calls) : inv.calls[k] = "ok") =>
        /\ \E i \in 1..Len(targets) :
              /\ st.current_target = Some(targets[i])
              /\ MissingAt(targets, inv.before.results, i)
              /\ \A j \in 1..(i - 1) : ~MissingAt(targets, inv.before.results, j)
        /\ inv.path =
              <<[node |-> "find_missing", node_result |-> RESULT_TARGET_FOUND],
                [node |-> "generate_question",
                 node_result |-> RESULT_QUESTION_GENERATED]>>
        /\ inv.calls = <<"ok">>
        /\ Len(st.messages) = Len(inv.messages) + 1
        /\ SubSeq(st.messages, 1, Len(inv.messages)) = inv.messages
        /\ Last(st.messages).role = "ai"
        /\ st.node_result = RESULT_QUESTION_GENERATED
        /\ st.results = inv.before.results
        /\ inv.saved = Some(st)

\* the question asks for the second entry of the catalog, after a system message
C5_Witness ==
    /\ EnteredAtFindMissing
    /\ inv.calls = <<"ok">>
    /\ Len(targets) = 2
    /\ st.current_target = Some(targets[2])
    /\ targets[1].required
    /\ Len(inv.messages) = 1
    /\ Last(st.messages) = Message("ai", QuestionText)

\* a line of the summary
InSummary(line, content) == \E k \in 1..Len(content) : content[k] = line

\* C6: when find_missing runs and every required id of the catalog is a key of
\* results, the invocation ends with all_targets_complete and no current_target,
\* and the state handed to save holds exactly one more message, an ai message
\* that lists the name of every entry of results
C6_SummaryWhenComplete ==
    (/\ inv.op \in RunOps
     /\ inv.done
     /\ \E k \in 1..Len(inv.path) : inv.path[k].node = "find_missing"
     /\ \A i \in 1..Len(targets) : ~MissingAt(targets, inv.before.results, i)) =>
        /\ st.node_result = RESULT_ALL_TARGETS_COMPLETE
        /\ IsNone(st.current_target)
        /\ inv.saved = Some(st)
        /\ Len(st.messages) = Len(inv.messages) + 1
        /\ SubSeq(st.messages, 1, Len(inv.messages)) = inv.messages
        /\ Last(st.messages).role = "ai"
        /\ \A k \in 1..Len(st.results) :
              InSummary(st.results[k].name, Last(st.messages).content)
        /\ st.results = inv.before.results

\* the summary of two entries, one of them under an id the catalog does not define
C6_Witness ==
    /\ inv.op \in RunOps
    /\ inv.done
    /\ st.node_result = RESULT_ALL_TARGETS_COMPLETE
    /\ Len(targets) > 0
    /\ Len(st.results) = 2
    /\ ForeignId \in Keys(st.results)
    /\ InSummary(NameOf(ForeignId), Last(st.messages).content)
    /\ InSummary(NameOf("A"), Last(st.messages).content)

\* the last two calls of the store were save(S); save(S) with equal states
SavedTwice ==
    /\ Len(hist) >= 2
    /\ hist[Len(hist) - 1].op = "save"
    /\ hist[Len(hist)].op = "save"
    /\ StateEq(Get(hist[Len(hist) - 1].arg), Get(hist[Len(hist)].arg))

\* the durable writes the last two calls completed
WritesOfLastTwo ==
    Cardinality({k \in {Len(hist) - 1, Len(hist)} : hist[k].wrote = "written"})

\* C7, as stated: after any history, save(S); save(S) performs exactly one durable
\* write in total and both calls return success
C7_SaveTwiceWritesExactlyOnce ==
    SavedTwice =>
        /\ WritesOfLastTwo = 1
        /\ hist[Len(hist) - 1].ok
        /\ hist[Len(hist)].ok

\* C7, amended: after any history, save(S); save(S) completes at most one durable
\* write, and none when S already has the stored hash; a call returns success
\* exactly when it skipped or completed its write; when the first call returns
\* success the second skips the write and returns success; when the first call
\* fails the second attempts the write again
C7_SaveTwiceWritesAtMostOnce ==
    SavedTwice =>
        LET first == hist[Len(hist) - 1]
            second == hist[Len(hist)]
        IN  /\ WritesOfLastTwo <= 1
            /\ first.ok <=> first.wrote \in {"skipped", "written"}
            /\ second.ok <=> second.wrote \in {"skipped", "written"}
            /\ first.ok => second.wrote = "skipped"
            /\ ~first.ok => second.wrote \in {"written", "failed"}
            /\ first.wrote = "skipped" => WritesOfLastTwo = 0

\* the first save wrote, the second, of the same results in another key order,
\* was skipped
C7_Witness ==
    /\ SavedTwice
    /\ hist[Len(hist) - 1].wrote = "written"
    /\ hist[Len(hist)].wrote = "skipped"
    /\ hist[Len(hist) - 1].arg # hist[Len(hist)].arg

\* a state with the five keys of the durable document
WellFormed(state) == DOMAIN state = DOMAIN default_state

\* C8: after any history, save(S) returning success, then invalidate_cache(), then
\* load() returns a state equal to S, for every well-formed S, also when the save
\* was skipped by the hash gate
C8_RoundTrip ==
    (/\ Len(hist) = 3
     /\ hist[1].op = "save" /\ hist[1].ok
     /\ WellFormed(Get(hist[1].arg))
     /\ hist[2].op = "invalidate_cache"
     /\ hist[3].op = "load") =>
        StateEq(Get(hist[3].val), Get(hist[1].arg))

\* a round trip whose save was skipped by the hash gate and that returned the state
C8_Witness ==
    /\ Len(hist) = 3
    /\ hist[1].op = "save" /\ hist[1].ok /\ hist[1].wrote = "skipped"
    /\ WellFormed(Get(hist[1].arg))
    /\ Len(Get(hist[1].arg).results) > 0
    /\ hist[2].op = "invalidate_cache"
    /\ hist[3].op = "load"
    /\ StateEq(Get(hist[3].val), Get(hist[1].arg))

\* the state load() returns once an invocation has returned
PersistedAfterInvocation ==
    /\ pc = Idle
    /\ inv.op \in RunOps
    /\ inv.done

PersistedStates ==
    {LoadView} \cup (IF file.kind = "doc" THEN {FillDefaults(Get(file.doc))} ELSE {})

ResultsKept(r1, r2) ==
    \A id \in Keys(r1) :
        /\ id \in Keys(r2)
        /\ ResultsDict(r2)[id] = ResultsDict(r1)[id]

C20_PayloadOfTheBlock ==
    lookup.called => lookup.ret = Some(Strip(lookup.payload))

\* C20, amended: the text yields X, stripped, when no <sufficient> tag stands in
\* the prose before the block and X holds neither </result> nor </sufficient>;
\* result tags and other blocks in the prose around it are not taken
C20_PayloadOfTheFirstBlock ==
    (/\ lookup.called
     /\ ~Contains(lookup.before, "<sufficient>")
     /\ ~Contains(lookup.payload, "</result>")
     /\ ~Contains(lookup.payload, "</sufficient>")) =>
        lookup.ret = Some(Strip(lookup.payload))

\* a payload with white space around it came out stripped, past a result tag in
\* the prose before the block
C20_Witness ==
    /\ lookup.called
    /\ lookup.before = <<"<result>", "</result>">>
    /\ lookup.payload = <<WhiteSpace, "X">>
    /\ lookup.after = <<"<result>">>
    /\ lookup.ret = Some(<<"X">>)

\* process_answer was called on inv.before and has returned st
ProcessAnswerReturned == inv.op = "process_answer" /\ inv.done

\* ... after an evaluation that succeeded with a sufficient verdict and a result
\* that can be extracted
JudgedSufficient ==
    /\ ProcessAnswerReturned
    /\ Len(inv.calls) = 1
    /\ inv.calls[1].ok
    /\ Contains(inv.calls[1].text, SUFFICIENT_CODE)
    /\ IsSome(extract_result(inv.calls[1].text, "sufficient"))

\* C11: when process_answer runs with current_target set, the evaluation succeeds
\* and the verdict is sufficient with an extractable result, it appends the raw
\* evaluation as one debug message, stores results[current_target.id] with the
\* target's name and description, appends exactly one ai message after the debug
\* message, and sets answer_sufficient; no other key of results changes
C11_SufficientAnswerStored ==
    JudgedSufficient =>
        LET target == Get(inv.before.current_target)
            n == Len(inv.before.messages)
        IN  /\ st.node_result = RESULT_ANSWER_SUFFICIENT
            /\ Len(st.messages) = n + 2
            /\ SubSeq(st.messages, 1, n) = inv.before.messages
            /\ st.messages[n + 1] = Message("debug", inv.calls[1].text)
            /\ st.messages[n + 2].role = "ai"
            /\ target.id \in Keys(st.results)
            /\ ResultsDict(st.results)[target.id].name = target.name
            /\ ResultsDict(st.results)[target.id].description = target.description
            /\ \A id \in (Keys(st.results) \cup Keys(inv.before.results)) \ {target.id} :
                  /\ id \in Keys(st.results) \cap Keys(inv.before.results)
                  /\ ResultsDict(st.results)[id] = ResultsDict(inv.before.results)[id]

\* C12: once process_answer has taken a sufficient answer for a target, the state
\* it returns holds answer_sufficient and its current_target does not refer to
\* that target
C12_TargetClearedOnceStored ==
    JudgedSufficient =>
        /\ st.node_result = RESULT_ANSWER_SUFFICIENT
        /\ st.current_target # inv.before.current_target

\* C13: process_answer with no current_target makes no LLM call, sets
\* answer_insufficient, leaves messages, results and current_target as they were,
\* and the invocation exits
C13_NoTargetIsInsufficient ==
    (ProcessAnswerReturned /\ NoCurrentTarget(inv.before)) =>
        /\ inv.calls = <<>>
        /\ st.node_result = RESULT_ANSWER_INSUFFICIENT
        /\ \A k \in DOMAIN inv.before \ {"node_result"} : st[k] = inv.before[k]
        /\ DOMAIN st = DOMAIN inv.before \cup {"node_result"}
        /\ pc = END

\* process_answer returned on a state with a human answer, results and a model
\* name, but no current_target
C13_Witness ==
    /\ ProcessAnswerReturned
    /\ "model_name" \in DOMAIN inv.before
    /\ "current_target" \in DOMAIN inv.before
    /\ IsNone(inv.before.current_target)
    /\ Len(inv.before.messages) = 2
    /\ Len(inv.before.results) = 1
    /\ st.node_result = RESULT_ANSWER_INSUFFICIENT
    /\ pc = END

\* no message of the history is a human message
NoHumanMessage(state) ==
    "messages" \in DOMAIN state /\
    \A k \in 1..Len(state.messages) : state.messages[k].role # "human"

\* C14: process_answer on a history without a human message returns
\* answer_insufficient, also with current_target set
C14_NoUserMessageIsInsufficient ==
    (ProcessAnswerReturned /\ NoHumanMessage(inv.before)) =>
        st.node_result = RESULT_ANSWER_INSUFFICIENT

\* something was raised inside process_answer: a key the prompt or get_llm reads
\* is missing, llm.invoke failed, or the verdict was sufficient, where the result
\* tag is missing or the conversion is called and raises
RaisedInProcessAnswer ==
    /\ ProcessAnswerReturned
    /\ ~NoCurrentTarget(inv.before)
    /\ \/ IsSome(MissingKey(inv.before))
       \/ /\ Len(inv.calls) = 1
          /\ \/ ~inv.calls[1].ok
             \/ Contains(inv.calls[1].text, SUFFICIENT_CODE)

\* C15: an exception raised inside process_answer is caught in the step:
\* process_answer returns a state with node_result error and the error message
\* recorded, the graph goes to END, and results are as before the step; and error
\* is returned for no other reason
C15_ExceptionsBecomeError ==
    ProcessAnswerReturned =>
        /\ RaisedInProcessAnswer <=> st.node_result = RESULT_ERROR
        /\ st.node_result = RESULT_ERROR =>
              /\ "error" \in DOMAIN st
              /\ st.error \in {"KeyError", "invoke", "ValueError", "TypeError"}
              /\ "results" \in DOMAIN inv.before => st.results = inv.before.results
              /\ \A k \in DOMAIN inv.before \ {"node_result", "messages"} :
                    st[k] = inv.before[k]
              /\ pc = END

\* each of the four causes has been caught: the missing key, the failed call, the
\* missing result tag, the failed conversion (after the debug message)
C15_Witness ==
    /\ RaisedInProcessAnswer
    /\ st.node_result = RESULT_ERROR
    /\ st.error = "TypeError"
    /\ Len(inv.before.results) = 1
    /\ st.results = inv.before.results
    /\ st.messages = Append(inv.before.messages, Message("debug", inv.calls[1].text))

\* generate_question was called on inv.before and its LLM call failed
GenerateQuestionFailed ==
    /\ inv.op = "generate_question"
    /\ inv.done
    /\ inv.calls = <<LLMFailure>>

\* C16: when the LLM call in generate_question fails, the step sets node_result
\* error with the error captured, appends no message, leaves results and
\* current_target as they were, and the invocation exits
C16_FailedQuestionIsError ==
    GenerateQuestionFailed =>
        /\ st.node_result = RESULT_ERROR
        /\ "error" \in DOMAIN st
        /\ st.messages = inv.before.messages
        /\ st.results = inv.before.results
        /\ st.current_target = inv.before.current_target
        /\ pc = END

\* the call failed in the model itself, with a usable model in the document and a
\* conversation and a result to keep
C16_Witness ==
    /\ GenerateQuestionFailed
    /\ CanInvoke(file)
    /\ Len(inv.before.messages) = 2
    /\ Len(inv.before.results) = 1
    /\ st.node_result = RESULT_ERROR
    /\ pc = END

\* the assistant messages of a message list, in order
AiMessages(messages) == SelectSeq(messages, LAMBDA m : m.role = "ai")

\* an invocation of the Agent has ended, saved, with node_result error
EndedWithError ==
    /\ PersistedAfterInvocation
    /\ IsSome(inv.saved)
    /\ Get(inv.saved).node_result = RESULT_ERROR

Evaluated ==
    /\ ProcessAnswerReturned
    /\ Len(inv.calls) = 1
    /\ inv.calls[1].ok

\* the branch an evaluation belongs to, and whether the text lacks the structure
\* of that branch: the verdict block's tags or the result's tags
BranchOf(evaluation) ==
    IF Contains(evaluation, SUFFICIENT_CODE) THEN "sufficient" ELSE "insufficient"
LacksStructure(evaluation) ==
    \/ ~Contains(evaluation, OpenTag(BranchOf(evaluation)))
    \/ ~Contains(evaluation, CloseTag(BranchOf(evaluation)))
    \/ ~Contains(evaluation, "<result>")
    \/ ~Contains(evaluation, "</result>")

\* the step ended as an insufficient answer does: the debug message, then one ai
\* message with that content
FollowedUpWith(content) ==
    /\ st.node_result = RESULT_ANSWER_INSUFFICIENT
    /\ st.messages = inv.before.messages
                        \o <<Message("debug", inv.calls[1].text), Message("ai", content)>>
    /\ st.results = inv.before.results
    /\ "error" \notin DOMAIN st

\* C18, as stated: an evaluation that lacks the expected structure, in either
\* branch, ends with answer_insufficient and the default follow-up, never error
C18_ParseErrorRecovered ==
    (Evaluated /\ LacksStructure(inv.calls[1].text)) =>
        /\ st.node_result # RESULT_ERROR
        /\ FollowedUpWith(DefaultFollowUp)

\* C18, amended: in the insufficient branch it does; in the sufficient branch it
\* ends with error, the debug message appended and no ai message
C18_ParseErrorRecoveredWhenInsufficient ==
    (Evaluated /\ LacksStructure(inv.calls[1].text)) =>
        IF BranchOf(inv.calls[1].text) = "insufficient"
        THEN FollowedUpWith(DefaultFollowUp)
        ELSE /\ st.node_result = RESULT_ERROR
             /\ st.error = "ValueError"
             /\ st.messages = Append(inv.before.messages,
                                     Message("debug", inv.calls[1].text))
             /\ st.results = inv.before.results

\* an insufficient block whose result tag is not closed got the default follow-up
C18_Witness ==
    /\ Evaluated
    /\ inv.calls[1].text = <<"<insufficient>", INSUFFICIENT_CODE, "<result>", "Q", "</result>">>
    /\ Len(inv.before.messages) = 2
    /\ FollowedUpWith(DefaultFollowUp)
    /\ pc = END

\* C19: an evaluation without the sufficiency code goes to the insufficient
\* branch whatever else it contains: results are as before, exactly one ai message
\* is appended (after the debug message), its content the result payload of the
\* insufficient block, or the default text when that cannot be found, and
\* node_result is answer_insufficient
C19_NoCodeIsInsufficient ==
    (Evaluated /\ ~Contains(inv.calls[1].text, SUFFICIENT_CODE)) =>
        LET evaluation == inv.calls[1].text
        IN  /\ FollowedUpWith(Last(st.messages).content)
            /\ LacksStructure(evaluation) => FollowedUpWith(DefaultFollowUp)
            /\ (\E prose \in {<<>>, <<"note">>}, payload \in {<<"Q">>, <<WhiteSpace, "Q", WhiteSpace>>} :
                    /\ Len(evaluation) >= Len(prose) + Len(payload) + 5
                    /\ SubSeq(evaluation, 1, Len(prose) + Len(payload) + 5)
                          = prose \o InsufficientBlock(payload))
                  => FollowedUpWith(<<"Q">>)
            /\ pc = END

\* the follow-up question of an insufficient block was sent, on a state that
\* already held a result
C19_Witness ==
    /\ Evaluated
    /\ inv.calls[1].text = InsufficientBlock(<<"Q">>)
    /\ Len(inv.before.results) = 1
    /\ Len(inv.before.messages) = 2
    /\ FollowedUpWith(<<"Q">>)


\* the call this step made was a save whose durable write failed
SaveFailedInStep ==
    /\ hist' # hist
    /\ Last(hist').op = "save"
    /\ Last(hist').wrote = "failed"

\* C21: when the durable write of save(state) fails, save returns false, and the
\* cache and the last-saved hash keep the values they had before the call; so a
\* save of the same state right after it attempts the write again, it is not
\* skipped
C21_FailedSaveKeepsCacheAndHash ==
    /\ [][SaveFailedInStep =>
            /\ ~Last(hist').ok
            /\ cache' = cache
            /\ hash' = hash
            /\ hash # Some(_calculate_state_hash(Get(Last(hist').arg)))]_vars
    /\ [](\A k \in 1..(Len(hist) - 1) :
            (/\ hist[k].op = "save" /\ hist[k].wrote = "failed"
             /\ hist[k + 1].op = "save"
             /\ StateEq(Get(hist[k + 1].arg), Get(hist[k].arg)))
                => hist[k + 1].wrote \in {"written", "failed"})

\* a save whose write failed, then the same state saved again and written, with
\* the cache then holding it
C21_Witness ==
    /\ Len(hist) >= 2
    /\ hist[Len(hist) - 1].op = "save"
    /\ hist[Len(hist) - 1].wrote = "failed"
    /\ ~hist[Len(hist) - 1].ok
    /\ hist[Len(hist)].op = "save"
    /\ hist[Len(hist)].arg = hist[Len(hist) - 1].arg
    /\ hist[Len(hist)].wrote = "written"
    /\ Len(Get(hist[Len(hist)].arg).results) = 2
    /\ cache = hist[Len(hist)].arg


\* the call this step made was a reset
ResetInStep == hist' # hist /\ Last(hist').op = "reset"

\* C22: after reset() returns true the durable document is absent and load()
\* returns the default state, whatever the state was before; when deleting the
\* document fails, reset() returns false and the cached state is left as it was
C22_ResetGivesDefault ==
    /\ [][ResetInStep =>
            IF Last(hist').ok
            THEN /\ file' = AbsentFile
                 /\ _load_state(file', cache', hash').ret = default_state
                 /\ _load_state(file', None, None).ret = default_state
            ELSE /\ file.kind # "absent"
                 /\ cache' = cache
                 /\ hash' = hash
                 /\ file' = file]_vars
    /\ [](\A k \in 1..(Len(hist) - 1) :
            (hist[k].op = "reset" /\ hist[k].ok /\ hist[k + 1].op = "load")
                => hist[k + 1].val = Some(default_state))

\* a state with results was saved and written, reset() returned true, and load()
\* then returned the default state
C22_Witness ==
    /\ Len(hist) = 3
    /\ hist[1].op = "save" /\ hist[1].wrote = "written"
    /\ Len(Get(hist[1].arg).results) = 2
    /\ hist[2].op = "reset" /\ hist[2].ok
    /\ hist[3].op = "load" /\ hist[3].val = Some(default_state)
    /\ file = AbsentFile


\* the call this step made was a save
SaveInStep == hist' # hist /\ Last(hist').op = "save"

\* C23: save replaces the durable document atomically: after any save, also one
\* whose write failed part-way, the document is the complete previous one or the
\* complete new one, never an empty or truncated one
C23_AtomicReplace ==
    [][SaveInStep =>
           \/ file' = file
           \/ file' = DocFile(Get(Last(hist').arg))]_vars


\* C24: an object returned by load() or passed to save() shares nothing with the
\* cache: when the caller changes it, what load() would return stays what it was
C24_NoSharedStructure ==
    [][(lookup'.ops # <<>> /\ Last(lookup'.ops) = "mutate"
        /\ lookup'.heap # lookup.heap) =>
           /\ LoadedValue(lookup'.heap, file', lookup'.cache)
                = LoadedValue(lookup.heap, file, lookup.cache)
           /\ lookup.held # lookup.cache]_vars

\* the caller saved its object, then changed it: the cache is another object and
\* still holds what was saved
C24_Witness ==
    /\ lookup.ops = <<"save", "mutate">>
    /\ lookup.cache # NoRef
    /\ lookup.held # lookup.cache
    /\ file = DocFile(lookup.heap[lookup.cache])
    /\ lookup.heap[lookup.held] # lookup.heap[lookup.cache]
    /\ Len(lookup.heap[lookup.held].messages) = Len(lookup.heap[lookup.cache].messages) + 1


\* C25: every LLM call made during an invocation uses the model configuration
\* the invocation was started with (name, temperature, provider, credential)
C25_CallsUseActiveConfiguration ==
    \A k \in 1..Len(inv.used) : Some(inv.used[k]) = inv.model


\* the hosted provider selected without a credential: the model of the document
\* is of type openai and its api_key is absent or empty
HostedWithoutCredential(f) ==
    /\ f.kind = "doc"
    /\ "model" \in DOMAIN Get(f.doc)
    /\ IsSome(Get(f.doc).model)
    /\ ConfigRead(f).type = "openai"
    /\ (IsNone(ConfigRead(f).api_key) \/ ConfigRead(f).api_key = Some(""))

\* C26: the hosted provider with an absent or empty credential is rejected before
\* any model invocation: no LLM call is made with that configuration, and the
\* step that attempted it ends with node_result error
C26_NoCredentialIsRejected ==
    /\ \A k \in 1..Len(inv.used) :
          inv.used[k].type = "openai" =>
              (IsSome(inv.used[k].api_key) /\ inv.used[k].api_key # Some(""))
    /\ (/\ inv.op = "generate_question" /\ inv.done
        /\ IsSome(inv.before.current_target)
        /\ HostedWithoutCredential(file)) =>
           /\ inv.used = <<>>
           /\ st.node_result = RESULT_ERROR
           /\ "error" \in DOMAIN st
           /\ st.messages = inv.before.messages
           /\ pc = END

\* generate_question ran with an openai model whose api_key is the empty string
C26_Witness ==
    /\ inv.op = "generate_question" /\ inv.done
    /\ IsSome(inv.before.current_target)
    /\ HostedWithoutCredential(file)
    /\ ConfigRead(file).api_key = Some("")
    /\ inv.used = <<>>
    /\ st.node_result = RESULT_ERROR


\* parse_llm_response was called and returned a value
Parsed == lookup.called /\ ~Get(lookup.ret).raised

\* the reply as the cleaning step leaves it: the body, stripped, when a fence
\* surrounds it; the reply as it is otherwise
CleanedReply ==
    IF lookup.fenced THEN Strip(lookup.body) ELSE lookup.response

\* the cleaned reply holds a JSON object or array of the example's kind: from the
\* first opening to the last closing character it parses
HoldsJson(type) ==
    LET open == IF type = "dict" THEN "{" ELSE "["
        close == IF type = "dict" THEN "}" ELSE "]"
    IN  \E i, j \in 1..Len(CleanedReply) :
            /\ i < j
            /\ CleanedReply[i] = open /\ \A k \in 1..(i - 1) : CleanedReply[k] # open
            /\ CleanedReply[j] = close
            /\ \A k \in (j + 1)..Len(CleanedReply) : CleanedReply[k] # close
            /\ ~json_loads(SubSeq(CleanedReply, i, j)).raised

FenceStripped ==
    /\ Get(lookup.ret).value.type = "str"
    /\ \A k \in 1..Len(Get(lookup.ret).value.text) :
          ~IsFence(Get(lookup.ret).value.text[k])

\* C28, as stated: parsing never raises, and a reply that cannot be parsed as
\* JSON comes back as raw text with the fence markup stripped
C28_UnparsedIsFenceStripped ==
    (/\ lookup.called
     /\ lookup.example_type \in {"dict", "list"}
     /\ ~HoldsJson(lookup.example_type))
        => ~Get(lookup.ret).raised /\ FenceStripped

\* C28, amended: parsing never raises; for an object example a valid JSON object
\* inside a fence parses to that object; and a reply that cannot be parsed as
\* JSON comes back as the cleaned raw text: the stripped content of the fence
\* when the fence is closed, the reply as it is, markup included, otherwise
C28_ParseNeverRaises ==
    lookup.called =>
        /\ ~Get(lookup.ret).raised
        /\ (/\ lookup.example_type = "dict"
            /\ lookup.fenced
            /\ \E members \in {<<>>, <<"k:1">>} :
                  WithoutWhiteSpace(lookup.body) = <<"{">> \o members \o <<"}">>)
              => Get(lookup.ret).value
                    = DictValue(SubSeq(WithoutWhiteSpace(lookup.body), 2,
                                       Len(WithoutWhiteSpace(lookup.body)) - 1))
        /\ (lookup.example_type \in {"dict", "list"}
            /\ ~HoldsJson(lookup.example_type))
              => Get(lookup.ret).value = StrValue(CleanedReply)

\* an object example, a json fence with prose around it, an object with white
\* space inside: the object comes back
C28_Witness ==
    /\ lookup.called
    /\ lookup.example_type = "dict"
    /\ lookup.fenced
    /\ Contains(lookup.response, FenceJson)
    /\ Contains(lookup.response, "note")
    /\ lookup.body = <<"{", WhiteSpace, "k:1", "}">>
    /\ Get(lookup.ret) = Returned(DictValue(<<"k:1">>))


\* an invocation of initialize_chat or add_user_message has returned
Returned_Invocation ==
    inv.done /\ inv.op \in {"initialize_chat", "add_user_message"} /\ IsSome(inv.ret)

\* the messages the user's own call put into the conversation before the run
OwnMessages ==
    IF inv.op = "add_user_message"
    THEN {<<>>} \cup {<<Message("human", content)>> : content \in UserInputs}
    ELSE {<<>>}

\* the number of ai messages the steps of the invocation appended: one for every
\* question generated, one for the summary
AppendedCount ==
    Cardinality({k \in 1..Len(inv.path) :
                    inv.path[k].node_result = RESULT_QUESTION_GENERATED})
        + (IF st.node_result = RESULT_ALL_TARGETS_COMPLETE THEN 1 ELSE 0)

\* C29: the pair returned holds all messages and, second, exactly the ai
\* messages appended during the invocation, in order: what was there before,
\* the user's own message and debug messages are not among them
C29_NewAiMessagesOnly ==
    Returned_Invocation =>
        LET pair == Get(inv.ret)
        IN  /\ pair.all_messages = st.messages
            /\ \E own \in OwnMessages :
                  pair.all_messages = inv.before.messages \o own \o pair.new_messages
            /\ \A k \in 1..Len(pair.new_messages) : pair.new_messages[k].role = "ai"
            /\ Len(pair.new_messages) = AppendedCount

\* a conversation that held a debug message before the call, and a first question
C29_Witness ==
    /\ Returned_Invocation
    /\ inv.before.messages = <<Message("debug", <<"raw">>)>>
    /\ Len(Get(inv.ret).new_messages) = 1
    /\ Get(inv.ret).all_messages
          = inv.before.messages \o Get(inv.ret).new_messages


UserTurn ==
    /\ inv.op = "add_user_message"
    /\ inv.done
    /\ inv.entry = "process_answer"
    /\ IsSome(inv.before.current_target)
    /\ Get(inv.before.current_target).id \notin Keys(inv.before.results)
    /\ \A k \in 1..Len(inv.calls) : inv.calls[k] # "fail"

IsPrefix(a, b) == Len(a) <= Len(b) /\ SubSeq(b, 1, Len(a)) = a

\* the messages of the durable document, when it can be read
DocumentMessages(f) == IF f.kind = "doc" THEN Get(f.doc).messages ELSE <<>>

\* C32: messages are append-only: in every step of an invocation the list of the
\* graph state, and in every step but a reset the persisted list, as load()
\* returns it and as the document holds it, has the list before as a prefix
C32_MessagesAppendOnly ==
    [][/\ (pc # Idle /\ pc' # Idle) => IsPrefix(st.messages, st'.messages)
       /\ (pc = Idle /\ pc' # Idle) => IsPrefix(LoadView.messages, st'.messages)
       /\ ~(pc = Idle /\ pc' = Idle) =>
            /\ IsPrefix(LoadView.messages, LoadView'.messages)
            /\ (file.kind = "doc" /\ file'.kind = "doc") =>
                  IsPrefix(DocumentMessages(file), DocumentMessages(file'))]_vars

\* a question, and two answers after it, persisted in that order
C32_Witness ==
    /\ PersistedAfterInvocation
    /\ file = DocFile(st)
    /\ Len(LoadView.messages) = 3
    /\ LoadView.messages[1].role = "ai"
    /\ LoadView.messages[2].role = "human"
    /\ LoadView.messages[3].role = "human"
    /\ IsPrefix(inv.before.messages, LoadView.messages)


\* an invocation in which find_missing ran has returned
FindMissingReturned ==
    /\ inv.op \in RunOps
    /\ inv.done
    /\ Len(inv.path) > 0
    /\ inv.path[1].node = "find_missing"

\* C33: when find_missing fails, the catalog not loading included, the invocation
\* ends normally with node_result error, messages, results and current_target as
\* they were, and that state is the one persisted
C33_FindMissingFailureIsError ==
    FindMissingReturned =>
        /\ st.node_result = RESULT_ERROR
        /\ st.messages = inv.messages
        /\ ResultsDict(st.results) = ResultsDict(inv.before.results)
        /\ st.current_target = inv.before.current_target
        /\ inv.saved = Some(st)
        /\ LoadView.node_result = RESULT_ERROR


\* C34: every invocation terminates: whatever the entry step and whatever the LLM
\* calls come to, the run reaches the exit and returns, and no step is executed
\* more than once within the invocation
C34_EveryInvocationTerminates ==
    /\ [](\A j, k \in 1..Len(inv.path) : inv.path[j].node = inv.path[k].node => j = k)
    /\ (pc # Idle) ~> (pc = END)
    /\ (pc = END) ~> (pc = Idle /\ inv.done)

\* find_missing found a target, the call for the question failed, the invocation
\* has returned
C34_Witness ==
    /\ pc = Idle
    /\ inv.done
    /\ inv.path = <<[node |-> "find_missing", node_result |-> RESULT_TARGET_FOUND],
                    [node |-> "generate_question", node_result |-> RESULT_ERROR]>>
    /\ inv.calls = <<"fail">>


\* the ids of the required fields, in the order of the catalog
RequiredIds ==
    [k \in 1..Len(get_required_target_items(targets)) |->
        get_required_target_items(targets)[k].id]

\* the persisted conversation is a first question and, after it, as many user
\* messages as the catalog has required fields, the last of them just processed
AnsweredEveryQuestion ==
    /\ PersistedAfterInvocation
    /\ inv.op = "add_user_message"
    /\ file = DocFile(st)
    /\ Len(RequiredIds) >= 1
    /\ Len(LoadView.messages) >= 1
    /\ LoadView.messages[1] = Message("ai", QuestionText)
    /\ Cardinality({k \in 1..Len(LoadView.messages) :
                       LoadView.messages[k].role = "human"}) = Len(RequiredIds)
    /\ \A k \in 1..Len(inv.calls) : inv.calls[k] # "fail"

\* C35: after initialize_chat and one add_user_message per required field, no LLM
\* call having failed, results holds every required id, collected in the order of
\* the catalog, node_result is all_targets_complete and current_target is none
C35_ProgressToCompletion ==
    AnsweredEveryQuestion =>
        /\ [k \in 1..Len(LoadView.results) |-> LoadView.results[k].id] = RequiredIds
        /\ LoadView.node_result = RESULT_ALL_TARGETS_COMPLETE
        /\ IsNone(LoadView.current_target)


\* the completion summaries in a message list
Summaries(messages) ==
    SelectSeq(messages,
              LAMBDA m : /\ m.role = "ai"
                         /\ Len(m.content) > 0
                         /\ m.content[1] = _create_summary_message(default_state)[1])

\* C36: between two resets the completion summary is appended at most once: the
\* message list of a run, the list load() returns and the list of the document
\* never hold more than one, whatever calls follow the completion
C36_SummaryAtMostOnce ==
    /\ Len(Summaries(st.messages)) <= 1
    /\ Len(Summaries(LoadView.messages)) <= 1
    /\ Len(Summaries(DocumentMessages(file))) <= 1

\* the summary was given, the user wrote again and that turn is over: still one
C36_Witness ==
    /\ PersistedAfterInvocation
    /\ inv.op = "add_user_message"
    /\ file = DocFile(st)
    /\ Len(Summaries(inv.before.messages)) = 1
    /\ Last(inv.before.messages).role = "ai"
    /\ Last(LoadView.messages).role = "human"
    /\ Len(Summaries(LoadView.messages)) = 1
    /\ LoadView.node_result = RESULT_ANSWER_INSUFFICIENT


\* C37: whenever generate_question is about to run in an invocation, current_target
\* is set, its id is that of a required field of the catalog, and the id is no key
\* of results
C37_QuestionHasTarget ==
    pc = "generate_question" =>
        /\ IsSome(st.current_target)
        /\ \E i \in 1..Len(targets) :
              /\ targets[i].required
              /\ targets[i].id = Get(st.current_target).id
        /\ Get(st.current_target).id \notin Keys(st.results)

\* generate_question is about to run for B: A is optional, and a result is there
\* under an id the catalog does not know
C37_Witness ==
    /\ pc = "generate_question"
    /\ IsSome(st.current_target)
    /\ Get(st.current_target).id = "B"
    /\ targets[1] = TargetItem("A", FALSE)
    /\ ForeignId \in Keys(st.results)


\* every key of results is the id of a required field of the catalog, and so is the
\* id of current_target when one is set
InCatalog(state) ==
    LET required == {targets[i].id : i \in {j \in 1..Len(targets) : targets[j].required}}
    IN  /\ Keys(state.results) \subseteq required
        /\ IsSome(state.current_target) =>
              Get(state.current_target).id \in required

\* the persisted states, and the state of the run under way, are all InCatalog
AllInCatalog ==
    /\ \A state \in PersistedStates : InCatalog(state)
    /\ pc # Idle => InCatalog(st)

\* C38: initialize_chat, add_user_message and reset keep the persisted state within
\* the catalog: every key of results the id of a required field, current_target,
\* when set, a required field. The default state is so, a successful reset makes
\* it so, and no step leads from such a state to one that is not
C38_PersistedWithinCatalog ==
    /\ InCatalog(default_state)
    /\ [][/\ AllInCatalog => AllInCatalog'
          /\ inv'.op = "reset" => AllInCatalog']_vars

\* a result for A left by an earlier session, the question for B asked and
\* persisted
C38_Witness ==
    /\ PersistedAfterInvocation
    /\ file = DocFile(st)
    /\ AllInCatalog
    /\ Keys(LoadView.results) = {"A"}
    /\ IsSome(LoadView.current_target)
    /\ Get(LoadView.current_target).id = "B"
    /\ LoadView.node_result = RESULT_QUESTION_GENERATED


\* C39: cache coherence: in every state of the store, what load() returns now is
\* what it would return after invalidate_cache(), the state re-read from the
\* document or the default state when there is none
C39_CacheCoherence ==
    LoadView = _load_state(file, None, None).ret


\* C40: every add_user_message call processes the new message: the list handed to
\* the run is the list before the call and the user's message after it, the entry
\* step is process_answer, and the messages persisted after the call hold that
\* message, a failing write or not
C40_UserMessageProcessed ==
    inv.op = "add_user_message" =>
        /\ Len(inv.messages) = Len(inv.before.messages) + 1
        /\ Last(inv.messages).role = "human"
        /\ inv.entry = "process_answer"
        /\ (pc = Idle /\ inv.done) =>
              /\ Len(LoadView.messages) > Len(inv.before.messages)
              /\ LoadView.messages[Len(inv.before.messages) + 1].role = "human"


=============================================================================
